---- MODULE Spec2Model ----
EXTENDS Integers, Sequences, FiniteSets, TLC

(***************************************************************************)
(* Model of the typeck core: the canonical type code (type-code.ts), the   *)
(* type language with its kind checker and unifier (type-lang.ts) and the  *)
(* lexical scope tree (context: part_000).                                 *)
(*                                                                         *)
(* Representation of a TypeLang AST: a tuple whose first element is the    *)
(* node's TypeOp.  The kind `*`, which the source writes as the bare       *)
(* number TypeOp.Concrete, is the one-element tuple <<TypeOp_Concrete>>.   *)
(* A Forall parameter is either a kind or an array of constraints; the     *)
(* array [c1, ..., cn] is the tuple <<TypeOp_Impl, c1, ..., cn>>.          *)
(***************************************************************************)

\* ---- bounds -------------------------------------------------------------
MaxId == 1
MaxImpls == 2
MaxCtx == 3
MaxOps == 3
MaxWords == 2
MaxStmts == 3
MaxArity == 3
MaxCalls == 2

\* ---- enum TypeOp (type-code.ts) -----------------------------------------
TypeOp_Forall == 0
TypeOp_Concrete == 1
TypeOp_Hkt == 2
TypeOp_Impl == 3
TypeOp_Hole == 4
TypeOp_Ref == 5
TypeOp_Var == 6
TypeOp_Fun == 7
TypeOp_Apply == 8

\* ---- AST constructors (interfaces of namespace TypeLang) ----------------
Concrete == <<TypeOp_Concrete>>
Hkt(k0, k1) == <<TypeOp_Hkt, k0, k1>>
Forall(param, expr) == <<TypeOp_Forall, param, expr>>
Hole(id) == <<TypeOp_Hole, id>>
Ref(id) == <<TypeOp_Ref, id>>
Var(id) == <<TypeOp_Var, id>>
Fun(x, y) == <<TypeOp_Fun, x, y>>
Apply(h, a) == <<TypeOp_Apply, h, a>>
\* Param = Kind | TypeLang[] : the array alternative
ParamArray(constrs) == <<TypeOp_Impl>> \o constrs

isArray(param) == param[1] = TypeOp_Impl
arrayItems(param) == Tail(param)

isForall(x) == x[1] = TypeOp_Forall
isKind(x) == x = Concrete \/ x[1] = TypeOp_Hkt
isHole(x) == x[1] = TypeOp_Hole
isVar(x) == x[1] = TypeOp_Var
isFun(x) == x[1] = TypeOp_Fun

\* ---- Map ----------------------------------------------------------------
\* A Map is a function whose DOMAIN is the set of its keys.
EmptyMap == <<>>
has(map, key) == key \in DOMAIN map
set(map, key, value) == (key :> value) @@ map

\* ---- TypeCode.compile ---------------------------------------------------
RECURSIVE compile(_)
RECURSIVE compileImpls(_)
\* for (const impl of ast.param) { yield TypeOp.Impl; yield* compile(impl); }
compileImpls(items) ==
    IF items = <<>> THEN <<>>
    ELSE <<TypeOp_Impl>> \o compile(Head(items)) \o compileImpls(Tail(items))

\* The generator returns (does not yield) on Concrete, and the Forall case
\* returns after the parameter part.
compile(ast) ==
    IF ast = Concrete THEN <<>>
    ELSE <<ast[1]>> \o
         CASE ast[1] = TypeOp_Forall ->
                 IF isArray(ast[2]) THEN compileImpls(arrayItems(ast[2]))
                 ELSE compile(ast[2])
           [] ast[1] \in {TypeOp_Hkt, TypeOp_Fun, TypeOp_Apply} ->
                 compile(ast[2]) \o compile(ast[3])
           [] ast[1] \in {TypeOp_Hole, TypeOp_Ref, TypeOp_Var} ->
                 <<ast[2]>>

\* ---- TypeCode.encode ----------------------------------------------------
Uint16Max == 65535
Uint16Mod == 65536

\* A code is the sequence of its UTF-16 code units.  threw: the uint16
\* overflow error.
encode(input) ==
    IF \E i \in 1..Len(input) : input[i] > Uint16Max
    THEN [threw |-> TRUE, code |-> <<>>]
    ELSE [threw |-> FALSE, code |-> [i \in 1..Len(input) |-> input[i] % Uint16Mod]]

\* ---- String.prototype.codePointAt ---------------------------------------
undefined == -1
HighSurrogateMin == 55296
HighSurrogateMax == 56319
LowSurrogateMin == 56320
LowSurrogateMax == 57343
SurrogateShift == 1024

codePointAt(code, offset) ==
    IF offset < 0 \/ offset >= Len(code) THEN undefined
    ELSE LET first == code[offset + 1] IN
         IF /\ first >= HighSurrogateMin /\ first <= HighSurrogateMax
            /\ offset + 1 < Len(code)
            /\ code[offset + 2] >= LowSurrogateMin
            /\ code[offset + 2] <= LowSurrogateMax
         THEN (first - HighSurrogateMin) * SurrogateShift
              + (code[offset + 2] - LowSurrogateMin) + Uint16Mod
         ELSE first

\* ---- TypeLang.decode ----------------------------------------------------
\* Decoding<T> = [T, number]; ok = FALSE models a raised error.
Decoded(ast, next) == [ok |-> TRUE, ast |-> ast, next |-> next]
DecodeError == [ok |-> FALSE, ast |-> <<>>, next |-> undefined]

RECURSIVE decode(_, _)
RECURSIVE decodeKind(_, _)
RECURSIVE decodeConstrs(_, _, _)

decodeHkt(code, offset) ==
    LET d0 == decodeKind(code, offset + 1) IN
    IF ~d0.ok THEN DecodeError
    ELSE LET d1 == decodeKind(code, d0.next) IN
         IF ~d1.ok THEN DecodeError
         ELSE Decoded(Hkt(d0.ast, d1.ast), d1.next)

decodeKind(code, offset) ==
    LET op == codePointAt(code, offset) IN
    IF op = TypeOp_Concrete THEN Decoded(Concrete, offset + 1)
    ELSE IF op # TypeOp_Hkt THEN DecodeError
    ELSE decodeHkt(code, offset)

\* do { [constr, constrOffset] = decode(...); param.push(constr) }
\* while (code.codePointAt(constrOffset) === TypeOp.Impl)
decodeConstrs(code, constrOffset, param) ==
    LET d == decode(code, constrOffset) IN
    IF ~d.ok THEN DecodeError
    ELSE IF codePointAt(code, d.next) = TypeOp_Impl
         THEN decodeConstrs(code, d.next, Append(param, d.ast))
         ELSE Decoded(ParamArray(Append(param, d.ast)), d.next)

decodeForall(code, offset) ==
    LET nextOp == codePointAt(code, offset + 1) IN
    IF nextOp = TypeOp_Hkt THEN
        LET p == decodeHkt(code, offset + 1) IN
        IF ~p.ok THEN DecodeError
        ELSE LET e == decode(code, p.next) IN
             IF ~e.ok THEN DecodeError
             ELSE Decoded(Forall(p.ast, e.ast), e.next)
    ELSE IF nextOp = TypeOp_Impl THEN
        LET p == decodeConstrs(code, offset + 2, <<>>) IN
        IF ~p.ok THEN DecodeError
        ELSE LET e == decode(code, p.next) IN
             IF ~e.ok THEN DecodeError
             ELSE Decoded(Forall(p.ast, e.ast), e.next)
    ELSE IF nextOp = undefined THEN DecodeError
    ELSE LET e == decode(code, offset + 1) IN
         IF ~e.ok THEN DecodeError
         ELSE Decoded(Forall(Concrete, e.ast), e.next)

decode(code, offset) ==
    LET op == codePointAt(code, offset) IN
    CASE op = TypeOp_Forall -> decodeForall(code, offset)
      [] op = TypeOp_Hole -> Decoded(Hole(offset), offset + 1)
      [] op \in {TypeOp_Var, TypeOp_Ref} ->
            LET id == codePointAt(code, offset + 1) IN
            IF id = undefined THEN DecodeError
            ELSE Decoded(<<op, id>>, offset + 2)
      [] op \in {TypeOp_Fun, TypeOp_Apply} ->
            LET d0 == decode(code, offset + 1) IN
            IF ~d0.ok THEN DecodeError
            ELSE LET d1 == decode(code, d0.next) IN
                 IF ~d1.ok THEN DecodeError
                 ELSE Decoded(<<op, d0.ast, d1.ast>>, d1.next)
      [] OTHER -> DecodeError

\* ---- the AST handed to the scope tree (ast.ts, ast-builder.ts) ----------
\* Nodes are numbered; NoNode is an undefined parent or root.  The program is
\*   (let x (fun <T> [x] (block)))   nodes 1, 4, 5, 6, 7
\*   (let x ...)                     node 2, a second let of the same name
\*   (type x (forall [T] ...))       nodes 3, 8, 9
\* ASTBuilder.create sets the parent of a fun's params and body, not of its
\* generic parameters.
NoNode == 0
AstNode(t, id, name, parent, generic, params) ==
    [t |-> t, id |-> id, name |-> name, parent |-> parent,
     generic |-> generic, params |-> params]
NoId == undefined
AST == <<
    AstNode("let", 0, "x", NoNode, <<>>, <<>>),
    AstNode("let", 1, "x", NoNode, <<>>, <<>>),
    AstNode("type-alias", 2, "x", NoNode, <<>>, <<>>),
    AstNode("fun", NoId, "", 1, <<5>>, <<6>>),
    AstNode("type-param-hkt", 3, "T", NoNode, <<>>, <<>>),
    AstNode("param", 4, "x", 4, <<>>, <<>>),
    AstNode("block", NoId, "", 4, <<>>, <<>>),
    AstNode("forall", NoId, "", 3, <<>>, <<9>>),
    AstNode("type-param-impl", 5, "T", 8, <<>>, <<>>),
    AstNode("var", NoId, "x", 2, <<>>, <<>>),
    AstNode("apply", NoId, "", NoNode, <<>>, <<>>),
    AstNode("var", NoId, "x", 11, <<>>, <<>>),
    AstNode("apply", NoId, "", NoNode, <<>>, <<>>),
    AstNode("literal-integer", NoId, "", 13, <<>>, <<>>),
    AstNode("type-var", NoId, "T", 6, <<>>, <<>>),
    AstNode("type-var", NoId, "T", NoNode, <<>>, <<>>) >>
\* the links of the nodes that check and infer follow: the second let is
\* (let x x), node 11 is the application (x ...) and node 13 is (1 ...)
letChild == (1 :> 4) @@ (2 :> 10)
applyHead == (11 :> 12) @@ (13 :> 14)
paramType == (6 :> 15)
funRet == (4 :> 16)
funBody == (4 :> 7)
blockChildren == (7 :> <<>>)
Entities == {n \in DOMAIN AST : AST[n].id # NoId}
Scopes == {n \in DOMAIN AST : AST[n].t \in {"block", "fun", "forall"}}
ValueEntityTypes == {"let", "param"}
TypeEntityTypes == {"type-alias", "type-data", "type-param-hkt", "type-param-impl"}
\* the entities a caller defines directly (parameters are defined by enter)
Definable == {n \in Entities : AST[n].t \in {"let", "type-alias"}}
EntityIds == {AST[n].id : n \in Entities}
Names == {AST[n].name : n \in Entities}

\* ---- class Context (part_000) -------------------------------------------
\* The contexts that exist are a sequence; a context is named by its index
\* and NoCtx is undefined.
NoCtx == 0
Context(root, parent, depth) ==
    [root |-> root, parent |-> parent, depth |-> depth,
     entities |-> EmptyMap, valueNames |-> EmptyMap, typeNames |-> EmptyMap,
     vars |-> EmptyMap, children |-> EmptyMap, normalizeCache |-> EmptyMap]

\* Context.findContext: the loop climbs target but looks up ast
RECURSIVE findContextFrom(_, _, _, _)
findContextFrom(ctxs, this, node, target) ==
    IF target = NoNode THEN NoCtx
    ELSE IF target = ctxs[this].root THEN this
    ELSE IF has(ctxs[this].children, node) THEN ctxs[this].children[node]
    ELSE findContextFrom(ctxs, this, node, AST[target].parent)

findContext(ctxs, this, node) == findContextFrom(ctxs, this, node, node)

\* Context.define: threw is the redeclaration error
Defined(threw, ctxs) == [threw |-> threw, ctxs |-> ctxs]
defineUnchecked(ctxs, this, node) ==
    LET a == AST[node]
        names == IF a.t \in {"let", "param"} THEN "valueNames" ELSE "typeNames"
    IN Defined(FALSE, [ctxs EXCEPT ![this] =
            [@ EXCEPT !.entities = set(@, a.id, node),
                      ![names] = set(@, a.name, node),
                      !.children = set(@, node, this)]])
define(ctxs, this, node) ==
    LET a == AST[node]
        ctx == ctxs[this]
    IN IF has(ctx.entities, a.id) /\ ctx.entities[a.id] = node
       THEN Defined(FALSE, ctxs)
       ELSE IF a.t \in ValueEntityTypes THEN
           IF has(ctx.valueNames, a.name) THEN Defined(TRUE, ctxs)
           ELSE Defined(FALSE, [ctxs EXCEPT ![this] =
                   [@ EXCEPT !.entities = set(@, a.id, node),
                             !.valueNames = set(@, a.name, node),
                             !.children = set(@, node, this)]])
       ELSE IF a.t \in TypeEntityTypes THEN
           IF has(ctx.typeNames, a.name) THEN Defined(TRUE, ctxs)
           ELSE Defined(FALSE, [ctxs EXCEPT ![this] =
                   [@ EXCEPT !.entities = set(@, a.id, node),
                             !.typeNames = set(@, a.name, node),
                             !.children = set(@, node, this)]])
       ELSE Defined(FALSE, ctxs)

\* for (const param of ...) ctx.define(param)
RECURSIVE defineAll(_, _, _)
defineAll(ctxs, this, nodes) ==
    IF nodes = <<>> THEN Defined(FALSE, ctxs)
    ELSE LET d == define(ctxs, this, Head(nodes)) IN
         IF d.threw THEN d ELSE defineAll(d.ctxs, this, Tail(nodes))

\* Context.enter: ret is the context returned
Entered(threw, ret, ctxs) == [threw |-> threw, ret |-> ret, ctxs |-> ctxs]
enter(ctxs, this, node) ==
    LET found == findContext(ctxs, this, node)
        new == Len(ctxs) + 1
        a == AST[node]
        depth == IF a.t = "forall" THEN ctxs[this].depth + 1 ELSE 0
        d == defineAll(Append(ctxs, Context(node, this, depth)), new,
                       a.generic \o a.params)
    IN IF found # NoCtx THEN Entered(FALSE, found, ctxs)
       ELSE IF d.threw THEN Entered(TRUE, NoCtx, ctxs)
       ELSE Entered(FALSE, new,
                    [d.ctxs EXCEPT ![this].children = set(@, node, new)])

\* Context.resolveId / resolveValueName / resolveTypeName: the loop climbs
\* parent but reads the maps of this.  field names the map that is read.
Resolved(ctx, node) == [ctx |-> ctx, ast |-> node]
NotResolved == Resolved(NoCtx, NoNode)
RECURSIVE resolveFrom(_, _, _, _, _)
resolveFrom(ctxs, this, parent, field, key) ==
    IF parent = NoCtx THEN NotResolved
    ELSE IF has(ctxs[this][field], key)
         THEN Resolved(findContext(ctxs, this, ctxs[this][field][key]),
                       ctxs[this][field][key])
         ELSE resolveFrom(ctxs, this, ctxs[parent].parent, field, key)

resolveId(ctxs, this, id) == resolveFrom(ctxs, this, this, "entities", id)
resolveValueNameAny(ctxs, this, name) == resolveFrom(ctxs, this, this, "typeNames", name)
resolveValueName(ctxs, this, name) == resolveFrom(ctxs, this, this, "valueNames", name)
resolveTypeName(ctxs, this, name) == resolveFrom(ctxs, this, this, "typeNames", name)

\* Context.resolveVar: the id found is remembered in _vars of this
ResolvedVar(ret, ctxs) == [ret |-> ret, ctxs |-> ctxs]
resolveVar(ctxs, this, node) ==
    IF has(ctxs[this].vars, node)
    THEN ResolvedVar(resolveId(ctxs, this, ctxs[this].vars[node]), ctxs)
    ELSE LET result == IF AST[node].t = "var"
                       THEN resolveValueName(ctxs, this, AST[node].name)
                       ELSE resolveTypeName(ctxs, this, AST[node].name)
         IN IF result = NotResolved THEN ResolvedVar(result, ctxs)
            ELSE ResolvedVar(result,
                    [ctxs EXCEPT ![this].vars = set(@, node, AST[result.ast].id)])

\* ---- Context.check and Context.infer (part_000) -------------------------
\* A call in progress is a stack of frames, innermost first.  A frame is a
\* call of check or of infer on a node by a context, or the continuation of
\* infer on a resolved entity.  The frames of callers that only pass the
\* result on are not kept, and the depth of the stack is not limited.  No
\* path of infer returns for a node of this AST (its only return is the
\* case 'integer'), so what follows a call of infer in its caller, the
\* throw Error('todo') of the apply case, is never run and has no frame.
Frame(f, node, ctx) == [f |-> f, node |-> node, ctx |-> ctx]
Stepped(status, frames, ctxs) ==
    [status |-> status, frames |-> frames, ctxs |-> ctxs]
framesOf(f, nodes, ctx) == [i \in DOMAIN nodes |-> Frame(f, nodes[i], ctx)]

\* one call of Context.check, up to its first nested call
checkFrame(ctxs, node, this, rest) ==
    LET t == AST[node].t IN
    CASE t = "let" ->
            LET d == define(ctxs, this, node) IN
            IF d.threw THEN Stepped("raised", <<>>, ctxs)
            ELSE Stepped("running",
                         <<Frame("check", letChild[node], this)>> \o rest, d.ctxs)
      [] t = "literal-integer" -> Stepped("running", rest, ctxs)
      [] t = "var" ->
            LET r == resolveVar(ctxs, this, node) IN
            IF r.ret = NotResolved THEN Stepped("raised", <<>>, ctxs)
            ELSE Stepped("running", rest, r.ctxs)
      [] t = "block" ->
            LET e == enter(ctxs, this, node) IN
            IF e.threw THEN Stepped("raised", <<>>, ctxs)
            ELSE Stepped("running",
                         framesOf("check", blockChildren[node], e.ret) \o rest,
                         e.ctxs)
      [] t = "fun" ->
            LET e == enter(ctxs, this, node) IN
            IF e.threw THEN Stepped("raised", <<>>, ctxs)
            ELSE Stepped("running",
                         framesOf("check",
                                  AST[node].generic \o AST[node].params
                                      \o <<funRet[node], funBody[node]>>,
                                  e.ret) \o rest,
                         e.ctxs)
      [] t = "param" ->
            Stepped("running", <<Frame("check", paramType[node], this)>> \o rest, ctxs)
      [] t = "apply" ->
            Stepped("running",
                    <<Frame("check", applyHead[node], this),
                      Frame("infer", applyHead[node], this)>> \o rest,
                    ctxs)
      [] OTHER -> Stepped("running", rest, ctxs)

\* one call of Context.infer, up to its first nested call; a node without
\* a case ends in throw Error('todo')
inferFrame(ctxs, node, this, rest) ==
    LET t == AST[node].t IN
    CASE t = "var" ->
            LET r == resolveValueName(ctxs, this, AST[node].name) IN
            IF r = NotResolved \/ r.ctx = NoCtx THEN Stepped("raised", <<>>, ctxs)
            ELSE Stepped("running", <<Frame("inferEntity", r.ast, r.ctx)>> \o rest, ctxs)
      [] t = "fun" ->
            Stepped("running",
                    framesOf("infer",
                             [i \in DOMAIN AST[node].params |->
                                 paramType[AST[node].params[i]]]
                                 \o <<funRet[node]>>,
                             this) \o rest,
                    ctxs)
      [] OTHER -> Stepped("raised", <<>>, ctxs)

\* return result.ctx.infer(result.ast.child) or (result.ast.type)
inferEntityFrame(ctxs, node, this, rest) ==
    Stepped("running",
            <<Frame("infer",
                    IF AST[node].t = "let" THEN letChild[node] ELSE paramType[node],
                    this)>> \o rest,
            ctxs)

\* ---- Context.normalize (part_000) ----------------------------------------
\* The type nodes handed to normalize.  A node is named by its index; the
\* params array of a node is mutable and lives in the variable astParams,
\* which starts as TypeParams.
\*   1  *                  concrete-kind
\*   2  (* -> *)           higher-kind
\*   3  ((* -> *) -> * -> *)  higher-kind enclosing node 2
\*   4  a                  type-var
\*   5  (fun a a)          type-fun
\*   6  a<*>               type-apply with head 4
\*   7  (* -> * -> *)      higher-kind
TypeNode(t, head) == [t |-> t, head |-> head]
TypeAST == <<
    TypeNode("concrete-kind", NoNode),
    TypeNode("higher-kind", NoNode),
    TypeNode("higher-kind", NoNode),
    TypeNode("type-var", NoNode),
    TypeNode("type-fun", NoNode),
    TypeNode("type-apply", 4),
    TypeNode("higher-kind", NoNode) >>
\* params of a higher-kind or type-fun node, args of a type-apply node
TypeParams == << <<>>, <<1, 1>>, <<2, 1, 1>>, <<>>, <<4, 4>>, <<1>>, <<1, 1, 1>> >>

\* what a generator has done: the instructions yielded, the params arrays
\* afterwards, and whether it raised
Yielded(threw, instrs, params) ==
    [threw |-> threw, instrs |-> instrs, params |-> params]
\* params.shift() on the array of node n
shift(params, n) == [params EXCEPT ![n] = Tail(@)]

RECURSIVE normalizeNode(_, _)
RECURSIVE normalizeFun(_, _, _)
RECURSIVE normalizeArgs(_, _)

\* Context._normalizeFun: consumes the array with shift; a second shift on
\* an array of one element yields undefined, whose .t raises
normalizeFun(params, prefix, n) ==
    IF params[n] = <<>> THEN Yielded(FALSE, <<>>, params)
    ELSE LET first == normalizeNode(shift(params, n), Head(params[n])) IN
         IF first.threw
         THEN Yielded(TRUE, <<prefix>> \o first.instrs, first.params)
         ELSE IF Len(params[n]) > 2
         THEN LET rest == normalizeFun(first.params, prefix, n) IN
              Yielded(rest.threw, <<prefix>> \o first.instrs \o rest.instrs,
                      rest.params)
         ELSE IF first.params[n] = <<>>
         THEN Yielded(TRUE, <<prefix>> \o first.instrs, first.params)
         ELSE LET second == normalizeNode(shift(first.params, n),
                                          Head(first.params[n]))
              IN IF second.threw
                 THEN Yielded(TRUE, <<prefix>> \o first.instrs \o second.instrs,
                              second.params)
                 ELSE LET rest == normalizeFun(second.params, prefix, n) IN
                      Yielded(rest.threw,
                              <<prefix>> \o first.instrs \o second.instrs
                                  \o rest.instrs,
                              rest.params)

\* for (const arg of args) yield* this._normalize(arg)
normalizeArgs(params, args) ==
    IF args = <<>> THEN Yielded(FALSE, <<>>, params)
    ELSE LET a == normalizeNode(params, Head(args)) IN
         IF a.threw THEN a
         ELSE LET rest == normalizeArgs(a.params, Tail(args)) IN
              Yielded(rest.threw, a.instrs \o rest.instrs, rest.params)

\* Context._normalizeApply
normalizeApply(params, head, args) ==
    IF Len(args) = 0 THEN Yielded(TRUE, <<>>, params)
    ELSE LET ops == [i \in 1..Len(args) |-> TypeOp_Apply]
             h == normalizeNode(params, head)
         IN IF h.threw THEN Yielded(TRUE, ops \o h.instrs, h.params)
            ELSE LET as == normalizeArgs(h.params, args) IN
                 Yielded(as.threw, ops \o h.instrs \o as.instrs, as.params)

\* Context._normalize
normalizeNode(params, n) ==
    CASE TypeAST[n].t = "type-var" -> Yielded(TRUE, <<>>, params)
      [] TypeAST[n].t = "concrete-kind" -> Yielded(FALSE, <<TypeOp_Concrete>>, params)
      [] TypeAST[n].t = "higher-kind" -> normalizeFun(params, TypeOp_Hkt, n)
      [] TypeAST[n].t = "type-fun" -> normalizeFun(params, TypeOp_Fun, n)
      [] TypeAST[n].t = "type-apply" -> normalizeApply(params, TypeAST[n].head, params[n])

\* Context.normalize: the code is cached only if nothing raised
Normalized(threw, code, params, cache) ==
    [threw |-> threw, code |-> code, params |-> params, cache |-> cache]
normalize(cache, params, n) ==
    IF has(cache, n) THEN Normalized(FALSE, cache[n], params, cache)
    ELSE LET y == normalizeNode(params, n)
             e == encode(y.instrs)
         IN IF y.threw \/ e.threw THEN Normalized(TRUE, <<>>, y.params, cache)
            ELSE Normalized(FALSE, e.code, y.params, set(cache, n, e.code))

\* ---- class Context (context.ts) over the type-level AST (part_001) ------
TypeParam(id, name) == [t |-> "type:param", id |-> id, name |-> name]
\* a constructor's name is optional
Ctor(id, named, name) ==
    [t |-> "type:data-ctor", id |-> id, named |-> named, name |-> name]
Method(id, name) == [t |-> "type:trait-method", id |-> id, name |-> name]
TypeHole(id) == [t |-> "type:hole", id |-> id]
Alias(id, name, params) ==
    [t |-> "type:alias", id |-> id, name |-> name, params |-> params]
Data(id, name, params, ctors) ==
    [t |-> "type:data", id |-> id, name |-> name, params |-> params,
     ctors |-> ctors]
Trait(id, name, params, methods) ==
    [t |-> "type:trait", id |-> id, name |-> name, params |-> params,
     methods |-> methods]
TypeForall(params) == [t |-> "type:forall", params |-> params]
TypeFun(tparams) == [t |-> "type:fun", tparams |-> tparams]
Partial(id, typeHoles) == [t |-> "type:partial", id |-> id, holes |-> typeHoles]

\* the definitions handed to define: two of the name x, one whose
\* parameter list repeats a name, one whose constructors share the name of
\* the datatype, and a trait whose methods repeat a name
Definitions == {
    Alias(0, "x", <<>>),
    Data(1, "x", <<TypeParam(2, "T")>>, <<Ctor(3, FALSE, "")>>),
    Data(4, "y", <<TypeParam(2, "T"), TypeParam(5, "T")>>, <<>>),
    Data(6, "y", <<>>, <<Ctor(3, FALSE, ""), Ctor(7, TRUE, "y")>>),
    Trait(8, "z", <<TypeParam(2, "T")>>, <<Method(9, "m"), Method(10, "m")>>) }
Domains == Definitions \cup
    { TypeForall(<<TypeParam(2, "T")>>),
      TypeFun(<<TypeParam(5, "T")>>),
      Partial(11, <<TypeHole(12)>>) }
TypeIds == {0, 1, 2, 12}
TypeNames == {"x", "y", "T"}

TypeContext(parent, domain) ==
    [parent |-> parent, domain |-> domain,
     entities |-> EmptyMap, names |-> EmptyMap]

\* names.includes(name) met while walking a list of names
includesTwice(names) ==
    \E i, j \in DOMAIN names : i < j /\ names[i] = names[j]

\* Context.define of context.ts: threw names the error raised, "none" if
\* the call returned
TypeDefined(threw, tctxs) == [threw |-> threw, tctxs |-> tctxs]
typeDefine(tctxs, this, def) ==
    IF has(tctxs[this].names, def.name) THEN TypeDefined("redeclare", tctxs)
    ELSE IF includesTwice([i \in DOMAIN def.params |-> def.params[i].name])
    THEN TypeDefined("parameter", tctxs)
    ELSE IF def.t = "type:data" /\ includesTwice(
              [i \in DOMAIN def.ctors |->
                  IF def.ctors[i].named THEN def.ctors[i].name ELSE def.name])
    THEN TypeDefined("constructor", tctxs)
    ELSE IF def.t = "type:trait" /\ includesTwice(
              [i \in DOMAIN def.methods |-> def.methods[i].name])
    THEN TypeDefined("method", tctxs)
    ELSE TypeDefined("none", [tctxs EXCEPT ![this] =
            [@ EXCEPT !.entities = set(@, def.id, def),
                      !.names = set(@, def.name, def)]])

\* this._entities.set(e.id, e) for every e of a list
RECURSIVE setEntities(_, _)
setEntities(map, list) ==
    IF list = <<>> THEN map
    ELSE setEntities(set(map, Head(list).id, Head(list)), Tail(list))

\* Context.enter of context.ts: a new context every time; the parameters,
\* holes, constructors and methods are put in the entities of this
TypeEntered(ret, tctxs) == [ret |-> ret, tctxs |-> tctxs]
typeEnter(tctxs, this, domain) ==
    LET bound == IF domain.t # "type:partial"
                 THEN IF domain.t = "type:fun" THEN domain.tparams
                      ELSE domain.params
                 ELSE domain.holes
        ctors == IF domain.t = "type:data" THEN domain.ctors ELSE <<>>
        methods == IF domain.t = "type:trait" THEN domain.methods ELSE <<>>
    IN TypeEntered(Len(tctxs) + 1,
          Append([tctxs EXCEPT ![this].entities =
                      setEntities(@, bound \o ctors \o methods)],
                 TypeContext(this, domain)))

\* Context.resolve and Context.lookup of context.ts
TypeResolved(found, ctx, entity) ==
    [found |-> found, ctx |-> ctx, entity |-> entity]
TypeNotResolved == TypeResolved(FALSE, NoCtx, TypeHole(undefined))
RECURSIVE typeResolveFrom(_, _, _, _)
typeResolveFrom(tctxs, ctx, field, key) ==
    IF ctx = NoCtx THEN TypeNotResolved
    ELSE IF has(tctxs[ctx][field], key)
         THEN TypeResolved(TRUE, ctx, tctxs[ctx][field][key])
         ELSE typeResolveFrom(tctxs, tctxs[ctx].parent, field, key)
resolve(tctxs, this, id) == typeResolveFrom(tctxs, this, "entities", id)
lookup(tctxs, this, name) == typeResolveFrom(tctxs, this, "names", name)

\* ---- typecode.ts: encode over the expressions of type-ast.ts ------------
Op_Forall == 0
Op_Exists == 1
Op_Kind == 2
Op_Constr == 3
Op_Ref == 4
Op_Var == 5
Op_Fun == 6
Op_Apply == 7

Star == [t |-> "*"]
FunHKT(params) == [t |-> "fun-hkt", params |-> params]
ExprRef(id) == [t |-> "ref", id |-> id]
ExprVar(id) == [t |-> "var", id |-> id]
ExprFun(params) == [t |-> "fun", params |-> params]
ExprApply(head, args) == [t |-> "apply", head |-> head, args |-> args]
Constraint(id, args) == [t |-> "constraint", id |-> id, args |-> args]
ParamConstrained(id, constraints) ==
    [t |-> "param-constrained", id |-> id, constraints |-> constraints]
ParamHigherKinded(id, kind) ==
    [t |-> "param-higher-kinded", id |-> id, kind |-> kind]
ExprForall(params, expr) == [t |-> "forall", params |-> params, expr |-> expr]

\* what a generator of typecode.ts has done: the instructions yielded and
\* the bindings map, which every copy of the state shares
Instrs(threw, instrs, bindings) ==
    [threw |-> threw, instrs |-> instrs, bindings |-> bindings]
InvalidLength(bindings) == Instrs(TRUE, <<>>, bindings)

RECURSIVE encodeExpr(_, _, _)
RECURSIVE encodeEach(_, _, _)
RECURSIVE encodeFunParts(_, _, _, _)
RECURSIVE encodeConstraints(_, _, _)
RECURSIVE encodeParams(_, _, _, _)

\* for (const e of exprs) yield* _encode(e, state)
encodeEach(exprs, depth, bindings) ==
    IF exprs = <<>> THEN Instrs(FALSE, <<>>, bindings)
    ELSE LET e == encodeExpr(Head(exprs), depth, bindings) IN
         IF e.threw THEN e
         ELSE LET rest == encodeEach(Tail(exprs), depth, e.bindings) IN
              Instrs(rest.threw, e.instrs \o rest.instrs, rest.bindings)

encodeApply(exprs, depth, bindings) ==
    IF Len(exprs) < 2 THEN InvalidLength(bindings)
    ELSE LET es == encodeEach(exprs, depth, bindings) IN
         Instrs(es.threw, [i \in 1..(Len(exprs) - 1) |-> Op_Apply] \o es.instrs,
                es.bindings)

\* the loop of encodeFun over all exprs but the last, then the last
encodeFunParts(prefix, exprs, depth, bindings) ==
    LET e == encodeExpr(Head(exprs), depth, bindings) IN
    IF e.threw THEN e
    ELSE IF Len(exprs) = 1 THEN e
    ELSE LET rest == encodeFunParts(prefix, Tail(exprs), depth, e.bindings) IN
         Instrs(rest.threw, <<prefix>> \o e.instrs \o rest.instrs, rest.bindings)

encodeFun(prefix, exprs, depth, bindings) ==
    IF Len(exprs) < 2 THEN InvalidLength(bindings)
    ELSE encodeFunParts(prefix, exprs, depth, bindings)

\* for (const {id, args} of param.constraints)
encodeConstraints(constraints, depth, bindings) ==
    IF constraints = <<>> THEN Instrs(FALSE, <<>>, bindings)
    ELSE LET c == Head(constraints)
             e == IF Len(c.args) = 0
                  THEN encodeExpr(ExprRef(c.id), depth, bindings)
                  ELSE encodeApply(<<ExprRef(c.id)>> \o c.args, depth, bindings)
         IN IF e.threw THEN e
            ELSE LET rest == encodeConstraints(Tail(constraints), depth, e.bindings) IN
                 Instrs(rest.threw, <<Op_Constr>> \o e.instrs \o rest.instrs,
                        rest.bindings)

\* for (const param of expr.params), then the body; depth is next.depth
encodeParams(expr, params, depth, bindings) ==
    IF params = <<>> THEN encodeExpr(expr.expr, depth, bindings)
    ELSE LET param == Head(params)
             bound == set(bindings, param.id, depth + 1)
             q == IF expr.t = "forall" THEN Op_Forall ELSE Op_Exists
             e == IF param.t = "param-constrained"
                  THEN encodeConstraints(param.constraints, depth + 1, bound)
                  ELSE encodeExpr(param.kind, depth + 1, bound)
         IN IF e.threw THEN e
            ELSE LET rest == encodeParams(expr, Tail(params), depth + 1, e.bindings) IN
                 Instrs(rest.threw, <<q>> \o e.instrs \o rest.instrs, rest.bindings)

\* _encode
encodeExpr(expr, depth, bindings) ==
    CASE expr = Star -> Instrs(FALSE, <<Op_Kind>>, bindings)
      [] expr.t \in {"forall", "exists"} -> encodeParams(expr, expr.params, depth, bindings)
      [] expr.t = "fun-hkt" ->
            LET f == encodeFun(Op_Fun, expr.params, depth, bindings) IN
            Instrs(f.threw, f.instrs \o <<Op_Kind>>, f.bindings)
      [] expr.t = "fun" -> encodeFun(Op_Fun, expr.params, depth, bindings)
      [] expr.t = "ref" -> Instrs(FALSE, <<Op_Ref, expr.id>>, bindings)
      [] expr.t = "var" ->
            IF ~has(bindings, expr.id) THEN Instrs(TRUE, <<>>, bindings)
            ELSE Instrs(FALSE, <<Op_Var, depth - bindings[expr.id]>>, bindings)
      [] expr.t = "apply" -> encodeApply(<<expr.head>> \o expr.args, depth, bindings)

\* encode
encodeTop(expr) == encodeExpr(expr, 0, EmptyMap)

\* ---- unifier.ts ---------------------------------------------------------
\* An expression is a number (the id of a parameter or of a hole, whose low
\* four bits are its vartype) or a node.
VARTYPE_data == 1
VARTYPE_param == 5
VARTYPE_hole == 7
VarId(index, id) == id * 16 + index
vartype(n) == n % 16
Num(n) == [t |-> "number", n |-> n]
UApply(head, args) == [t |-> "type:apply", head |-> head, args |-> args]
UTuple(elements) == [t |-> "type:tuple", elements |-> elements]
UFun(params, ret) == [t |-> "type:fun", params |-> params, ret |-> ret]
UForall(type) == [t |-> "type:forall", type |-> type]
UPartial(id, type) == [t |-> "type:partial", id |-> id, type |-> type]
isNumber(e) == e.t = "number"
isHoleId(e) == isNumber(e) /\ vartype(e.n) = VARTYPE_hole
NoPartial == -1
\* AST.Type.Partial.pack(partial, hole): the key of a hole of a partial
pack(partial, hole) == [t |-> "key", partial |-> partial, hole |-> hole]

\* left and right map a number to its list of bindings; bindings holds the
\* same lists in the order they were created, as (side, number) references
UnifierState(left, right, bindings) ==
    [left |-> left, right |-> right, bindings |-> bindings]
UnifierResult(ret, st) == [ret |-> ret, st |-> st]

\* the block `if (typeof lhs === 'number')`: bind other to the number n in
\* this side's map
bindLeft(n, other, partial, st) ==
    LET fresh == ~has(st.left, n)
        left == IF fresh THEN set(st.left, n, <<>>) ELSE st.left
        bindings == IF fresh THEN Append(st.bindings, <<"left", n>>) ELSE st.bindings
    IN IF isHoleId(other)
       THEN IF partial = NoPartial
            THEN UnifierResult("throw", UnifierState(left, st.right, bindings))
            ELSE UnifierResult("true",
                    UnifierState([left EXCEPT ![n] = Append(@, pack(partial, other.n))],
                                 st.right, bindings))
       ELSE UnifierResult("true",
                UnifierState([left EXCEPT ![n] = Append(@, other)], st.right, bindings))

bindRight(n, other, partial, st) ==
    LET fresh == ~has(st.right, n)
        right == IF fresh THEN set(st.right, n, <<>>) ELSE st.right
        bindings == IF fresh THEN Append(st.bindings, <<"right", n>>) ELSE st.bindings
    IN IF isHoleId(other)
       THEN IF partial = NoPartial
            THEN UnifierResult("throw", UnifierState(st.left, right, bindings))
            ELSE UnifierResult("true",
                    UnifierState(st.left,
                                 [right EXCEPT ![n] = Append(@, pack(partial, other.n))],
                                 bindings))
       ELSE UnifierResult("true",
                UnifierState(st.left, [right EXCEPT ![n] = Append(@, other)], bindings))

RECURSIVE uniUnify(_, _, _, _)
RECURSIVE uniUnifyEach(_, _, _, _)

\* for (i ...) if (!this._unify(ls[i], rs[i], partial)) return false
uniUnifyEach(ls, rs, partial, st) ==
    IF ls = <<>> THEN UnifierResult("true", st)
    ELSE LET u == uniUnify(Head(ls), Head(rs), partial, st) IN
         IF u.ret # "true" THEN u
         ELSE uniUnifyEach(Tail(ls), Tail(rs), partial, u.st)

\* a call whose boolean result the caller drops: only a raise gets through
dropped(u) == UnifierResult(IF u.ret = "throw" THEN "throw" ELSE "true", u.st)

\* Unifier._unify
uniUnify(lhs, rhs, partial, st) ==
    LET l == IF isNumber(lhs) THEN bindLeft(lhs.n, rhs, partial, st)
             ELSE UnifierResult("true", st)
    IN IF l.ret = "throw" THEN l
    ELSE LET r == IF isNumber(rhs) THEN bindRight(rhs.n, lhs, partial, l.st)
                  ELSE l
    IN IF r.ret = "throw" THEN r
    ELSE IF isNumber(lhs) \/ isNumber(rhs) THEN r
    ELSE IF lhs.t = "type:forall" THEN dropped(uniUnify(lhs.type, rhs, NoPartial, st))
    ELSE IF rhs.t = "type:forall" THEN dropped(uniUnify(lhs, rhs.type, NoPartial, st))
    ELSE IF lhs.t = "type:partial" THEN dropped(uniUnify(lhs.type, rhs, lhs.id, st))
    ELSE IF rhs.t = "type:partial" THEN dropped(uniUnify(lhs, rhs.type, rhs.id, st))
    ELSE IF lhs.t # rhs.t THEN UnifierResult("false", st)
    ELSE CASE lhs.t = "type:apply" ->
                 IF lhs.head # rhs.head THEN UnifierResult("false", st)
                 ELSE IF Len(lhs.args) # Len(rhs.args) THEN UnifierResult("false", st)
                 ELSE uniUnifyEach(lhs.args, rhs.args, partial, st)
           [] lhs.t = "type:tuple" ->
                 IF Len(lhs.elements) # Len(rhs.elements) THEN UnifierResult("false", st)
                 ELSE uniUnifyEach(lhs.elements, rhs.elements, partial, st)
           [] lhs.t = "type:fun" ->
                 IF Len(lhs.params) # Len(rhs.params) THEN UnifierResult("false", st)
                 ELSE LET ps == uniUnifyEach(lhs.params, rhs.params, partial, st) IN
                      IF ps.ret # "true" THEN ps
                      ELSE dropped(uniUnify(lhs.ret, rhs.ret, partial, ps.st))

\* ---- input universes ----------------------------------------------------
Ids == 0..MaxId

Kinds1 == {Concrete} \cup {Hkt(a, b) : a \in {Concrete}, b \in {Concrete}}
Kinds2 == {Concrete} \cup {Hkt(a, b) : a \in Kinds1, b \in Kinds1}

Leaves == {Hole(i) : i \in Ids} \cup {Ref(i) : i \in Ids} \cup {Var(i) : i \in Ids}
Arrows == {Fun(a, b) : a \in Leaves, b \in Leaves}
              \cup {Apply(a, b) : a \in Leaves, b \in Leaves}
ConstrArrays == {ParamArray(<<Ref(i)>>) : i \in Ids}
                    \cup {ParamArray(<<Ref(0), Ref(1)>>), ParamArray(<<Ref(1), Ref(0)>>)}
Params == Kinds1 \cup ConstrArrays
Foralls == {Forall(p, e) : p \in Params, e \in Leaves}
               \cup {Forall(Concrete, e) : e \in Arrows}

CodeUniverse == Kinds2 \cup Leaves \cup Arrows \cup Foralls

\* ---- TypeLang.Context: kind checker ------------------------------------
\* Results of kind: a kind, or one of two markers.
KindUndefined == <<undefined>>
KindThrow == <<undefined, undefined>>

\* Convert a single datatype type parameter to a kind
paramToKind(param) == IF isArray(param) THEN Concrete ELSE param

\* Convert a datatype's parameter list to the corresponding HKT
RECURSIVE paramsToHkt(_)
paramsToHkt(params) ==
    IF Len(params) = 0 THEN Concrete
    ELSE Hkt(paramToKind(params[1]),
             IF Len(params) = 1 THEN Concrete ELSE paramsToHkt(Tail(params)))

\* holes holds nodes (see Node below); kind reads the node's AST.
RECURSIVE kind(_, _, _, _)
kind(ast, params, datatypes, holes) ==
    IF isKind(ast) THEN KindThrow
    ELSE CASE ast[1] \in {TypeOp_Forall, TypeOp_Fun} -> Concrete
           [] ast[1] = TypeOp_Var ->
                 \* params[ast.id]! : out of range reads undefined, which
                 \* _paramToKind hands back
                 IF ast[2] < Len(params) THEN paramToKind(params[ast[2] + 1])
                 ELSE KindUndefined
           [] ast[1] = TypeOp_Hole ->
                 IF has(holes, ast[2])
                 THEN kind(holes[ast[2]].ast, params, datatypes, holes)
                 ELSE KindUndefined
           [] ast[1] = TypeOp_Ref ->
                 IF ~has(datatypes, ast[2]) THEN KindThrow
                 ELSE paramsToHkt(datatypes[ast[2]])
           [] ast[1] = TypeOp_Apply ->
                 LET head == kind(ast[2], params, datatypes, holes) IN
                 IF head = KindThrow THEN KindThrow
                 ELSE IF head = KindUndefined THEN KindUndefined
                 ELSE IF head = Concrete THEN KindThrow
                 ELSE head[3]

\* Results of check, instantiate and unify: "true", "false" or "throw".
Bool(b) == IF b THEN "true" ELSE "false"
codeOf(ast) == encode(compile(ast)).code

RECURSIVE check(_, _, _, _)
RECURSIVE checkConstrs(_, _, _, _)
checkConstrs(items, params, datatypes, holes) ==
    IF items = <<>> THEN "true"
    ELSE LET c == check(Head(items), params, datatypes, holes) IN
         IF c # "true" THEN c
         ELSE checkConstrs(Tail(items), params, datatypes, holes)

checkApplyKinds(headKind, argKind) ==
    Bool(codeOf(headKind) # codeOf(argKind))

check(ast, params, datatypes, holes) ==
    IF isKind(ast) THEN "true"
    ELSE CASE ast[1] = TypeOp_Forall ->
                 LET c == IF isArray(ast[2])
                          THEN checkConstrs(arrayItems(ast[2]), params, datatypes, holes)
                          ELSE "true"
                 IN IF c # "true" THEN c
                    ELSE check(ast[3], <<ast[2]>> \o params, datatypes, holes)
           [] ast[1] = TypeOp_Hole -> "throw"
           [] ast[1] = TypeOp_Ref -> Bool(has(datatypes, ast[2]))
           [] ast[1] = TypeOp_Var -> Bool(ast[2] < Len(params))
           [] ast[1] = TypeOp_Fun ->
                 LET cx == check(ast[2], params, datatypes, holes) IN
                 IF cx # "true" THEN cx
                 ELSE check(ast[3], params, datatypes, holes)
           [] ast[1] = TypeOp_Apply ->
                 LET ch == check(ast[2], params, datatypes, holes) IN
                 IF ch = "throw" THEN "throw"
                 ELSE IF ch = "false" THEN "false"
                 ELSE LET ca == check(ast[3], params, datatypes, holes) IN
                 IF ca = "throw" THEN "throw"
                 ELSE IF ca = "false" THEN "false"
                 ELSE LET headKind == kind(ast[2], params, datatypes, holes) IN
                 IF headKind = KindThrow THEN "throw"
                 ELSE IF headKind = KindUndefined \/ headKind = Concrete THEN "false"
                 ELSE LET argKind == kind(ast[3], params, datatypes, holes) IN
                 IF argKind = KindThrow THEN "throw"
                 ELSE IF argKind = KindUndefined THEN "false"
                 ELSE checkApplyKinds(headKind, argKind)

\* ---- TypeLang.Context: trait impls --------------------------------------
\* _impls : Map<TypeCode, Map<TypeCode, TraitImpl>>, codes as sequences
defineImpl(impls, type, trait, impl) ==
    LET typeTc == codeOf(type)
        traitTc == codeOf(trait)
        traitImpls == IF has(impls, traitTc) THEN impls[traitTc] ELSE EmptyMap
    IN set(impls, traitTc, set(traitImpls, typeTc, impl))

instantiate(param, type, params, datatypes, holes, impls) ==
    IF isArray(param) THEN
        LET typeTc == codeOf(type) IN
        Bool(\A i \in 1..Len(arrayItems(param)) :
                LET traitTc == codeOf(arrayItems(param)[i]) IN
                has(impls, traitTc) /\ has(impls[traitTc], typeTc))
    ELSE
        LET k == kind(type, params, datatypes, holes) IN
        IF k = KindThrow \/ k = KindUndefined THEN "throw"
        ELSE Bool(codeOf(param) = codeOf(k))

\* ---- TypeLang.UnityState ------------------------------------------------
\* unify compares the results of unwrap by object identity, so the unifier
\* works on nodes: an AST together with the identity of the object, which is
\* the identity of the root object followed by the path to the node.
Node(ast, id) == [ast |-> ast, id |-> id]
sub(n, k) == Node(n.ast[k], Append(n.id, k))

\* captured.lhs / captured.rhs are (sparse) arrays of instance lists: maps
\* from index to a sequence of nodes.
UnityState(params, captured) == [params |-> params, captured |-> captured]
emptyState ==
    UnityState([lhs |-> <<>>, rhs |-> <<>>], [lhs |-> EmptyMap, rhs |-> EmptyMap])
keepSides(pair) == pair
swapSides(pair) == [lhs |-> pair.rhs, rhs |-> pair.lhs]
swapNothing(state) == state
swap(state) == UnityState(swapSides(state.params), swapSides(state.captured))

\* ---- TypeLang.Context.unwrap -------------------------------------------
RECURSIVE unwrapResult(_)
unwrapResult(n) == IF isForall(n.ast) THEN unwrapResult(sub(n, 3)) ELSE n
RECURSIVE unwrapParams(_)
unwrapParams(ast) ==
    IF isForall(ast) THEN <<ast[2]>> \o unwrapParams(ast[3]) ELSE <<>>

\* The parameter objects of the environments: the param of the Forall node
\* n is the node sub(n, 2).
\* check(ast.expr, [param, ...params]): the environment check has built
\* when it reaches the first descendant that is not a Forall
RECURSIVE checkEnv(_, _)
checkEnv(n, params) ==
    IF isForall(n.ast) THEN checkEnv(sub(n, 3), <<sub(n, 2)>> \o params) ELSE params
\* do { params.push(ast.param); ast = ast.expr } while (isForall(ast))
RECURSIVE unwrapParamNodes(_)
unwrapParamNodes(n) ==
    IF isForall(n.ast) THEN <<sub(n, 2)>> \o unwrapParamNodes(sub(n, 3)) ELSE <<>>
\* lhs: [...state.params.lhs, ...lparams]
unifyEnv(n, params) == params \o unwrapParamNodes(n)

\* ---- TypeLang.Context.unify ---------------------------------------------
\* The result carries what the call leaves behind: the captured arrays
\* (shared by every state derived from the caller's) and the hole map.
Unified(ret, captured, holes) == [ret |-> ret, captured |-> captured, holes |-> holes]

\* if (instances === undefined) { instances = []; captured[id] = instances }
initializeAlways(array, id) == set(array, id, <<>>)
initialize(array, id) == IF has(array, id) THEN array ELSE set(array, id, <<>>)

\* both sides are type holes, with ids l and r
unifyHolesTrue(l, r, state, holes) == Unified("true", state.captured, holes)
unifyHoles(l, r, state, holes) ==
    IF l = r THEN Unified("true", state.captured, holes)
    ELSE IF ~has(holes, l) /\ ~has(holes, r)
    THEN Unified("false", state.captured, holes)
    ELSE LET h1 == IF ~has(holes, l) THEN set(holes, l, holes[r]) ELSE holes
             h2 == IF ~has(holes, r) THEN set(h1, r, holes[l]) ELSE h1
         IN Unified("true", state.captured, h2)

RECURSIVE unify(_, _, _, _, _, _)
RECURSIVE unifyCaptures(_, _, _, _, _)

\* for (const x of instances) if (!unify(x, rhs, UnityState.empty())) ...
\* yields the first result that is not "true", with the hole map so far
unifyCaptures(instances, rhs, datatypes, holes, impls) ==
    IF instances = <<>> THEN [ret |-> "true", holes |-> holes]
    ELSE LET u == unify(Head(instances), rhs, emptyState, datatypes, holes, impls) IN
         IF u.ret # "true" THEN [ret |-> u.ret, holes |-> u.holes]
         ELSE unifyCaptures(Tail(instances), rhs, datatypes, u.holes, impls)

unify(lhs, rhs, state, datatypes, holes, impls) ==
    IF isVar(lhs.ast) /\ lhs.ast[2] < Len(state.params.lhs) THEN
        \* capture rule
        LET id == lhs.ast[2]
            capLhs == initialize(state.captured.lhs, id)
            captured == [state.captured EXCEPT !.lhs = capLhs]
            instances == capLhs[id]
            param == state.params.lhs[id + 1]
            inst == instantiate(param, rhs.ast, state.params.rhs, datatypes, holes, impls)
        IN IF inst # "true" THEN Unified(inst, captured, holes)
           ELSE LET c == unifyCaptures(instances, rhs, datatypes, holes, impls) IN
                IF c.ret # "true" THEN Unified(c.ret, captured, c.holes)
                ELSE Unified("true",
                             [captured EXCEPT !.lhs[id] = Append(@, rhs)],
                             c.holes)
    ELSE IF isKind(lhs.ast) \/ isKind(rhs.ast) THEN
        Unified("throw", state.captured, holes)
    ELSE IF isForall(lhs.ast) \/ isForall(rhs.ast) THEN
        \* generic function types
        IF ~isForall(lhs.ast) \/ ~isForall(rhs.ast)
        THEN Unified("throw", state.captured, holes)
        ELSE LET lresult == unwrapResult(lhs)
                 rresult == unwrapResult(rhs)
             IN IF ~isFun(lresult.ast) \/ ~isFun(rresult.ast)
                THEN Unified(Bool(lresult.id = rresult.id), state.captured, holes)
                ELSE unify(lresult, rresult,
                           UnityState([lhs |-> state.params.lhs \o unwrapParams(lhs.ast),
                                       rhs |-> state.params.rhs \o unwrapParams(rhs.ast)],
                                      state.captured),
                           datatypes, holes, impls)
    ELSE IF isHole(lhs.ast) \/ isHole(rhs.ast) THEN
        \* type holes
        IF isHole(lhs.ast) /\ isHole(rhs.ast)
        THEN unifyHoles(lhs.ast[2], rhs.ast[2], state, holes)
        ELSE Unified("throw", state.captured, holes)
    ELSE IF lhs.ast[1] # rhs.ast[1] THEN
        Unified("false", state.captured, holes)
    ELSE CASE lhs.ast[1] = TypeOp_Ref ->
                 Unified(Bool(lhs.ast[2] = rhs.ast[2]), state.captured, holes)
           [] lhs.ast[1] = TypeOp_Var ->
                 Unified("false", state.captured, holes)
           [] lhs.ast[1] = TypeOp_Fun ->
                 \* (fun x y) ~= (fun a b) :  a ~= x under swap, then y ~= b
                 LET r == unify(sub(rhs, 2), sub(lhs, 2), swap(state),
                                datatypes, holes, impls)
                     afterR == swapSides(r.captured)
                 IN IF r.ret # "true" THEN Unified(r.ret, afterR, r.holes)
                    ELSE unify(sub(lhs, 3), sub(rhs, 3),
                               UnityState(state.params, afterR),
                               datatypes, r.holes, impls)
           [] lhs.ast[1] = TypeOp_Apply ->
                 LET r == unify(sub(lhs, 2), sub(rhs, 2), state,
                                datatypes, holes, impls)
                 IN IF r.ret # "true" THEN r
                    ELSE unify(sub(lhs, 3), sub(rhs, 3),
                               UnityState(state.params, r.captured),
                               datatypes, r.holes, impls)

\* inputs of check and kind
Refs == {Ref(i) : i \in Ids}
Vars == {Var(i) : i \in Ids}
KindAtoms == Refs \cup Vars \cup {Concrete}
KindUniverse ==
    Leaves \cup Kinds1
        \cup {Apply(h, a) : h \in KindAtoms, a \in KindAtoms}
        \cup {Fun(x, y) : x \in KindAtoms, y \in KindAtoms}
        \cup {Apply(Apply(h, a), b) : h \in Refs, a \in Refs \cup Vars, b \in Refs \cup Vars}
        \cup {Forall(p, Apply(h, a)) : p \in Kinds1, h \in Refs \cup Vars, a \in Refs \cup Vars}
KindParams == {<<>>, <<Concrete>>, <<Hkt(Concrete, Concrete)>>}
\* parameter lists handed to defineDatatype
DatatypeParams ==
    {<<>>, <<Concrete>>, <<Concrete, Concrete>>, <<Hkt(Concrete, Concrete)>>}

\* inputs of unify.  foo = <T, U>(t: T, u: U) -> U and bar = <X>(x: X, y: X) -> X
\* are the two types of index.ts.
foo == Forall(Concrete, Forall(Concrete, Fun(Var(1), Fun(Var(0), Var(0)))))
bar == Forall(Concrete, Fun(Var(0), Fun(Var(0), Var(0))))
Funs2 == {Fun(a, b) : a \in Vars, b \in Vars}
Funs3 == {Fun(a, Fun(b, c)) : a \in Vars, b \in Vars, c \in Vars}
UnifyUniverse ==
    Leaves \cup {Concrete} \cup Funs2 \cup Funs3
        \cup {Fun(a, b) : a \in Refs, b \in Refs}
        \cup {Apply(h, a) : h \in Refs, a \in Refs \cup Vars}
        \cup {Forall(Concrete, e) : e \in Refs \cup Funs2 \cup Funs3}
        \cup {Forall(Concrete, Forall(Concrete, e)) : e \in Funs3}
        \cup {Forall(p, Fun(Var(0), Var(0))) :
                 p \in {Hkt(Concrete, Concrete), ParamArray(<<Ref(0)>>)}}
\* parameter stacks of the state a caller constructs
UnifyParams == {<<>>, <<Concrete>>}
\* the datatypes of index.ts: datatype id has id parameters of kind *
indexParams(id) == [i \in 1..id |-> Concrete]

\* inputs of defineImpl and instantiate
ImplTypes == Refs \cup {Forall(Concrete, r) : r \in Refs} \cup {Fun(r, r) : r \in Refs}
ImplTraits == Refs
ImplValues == {"implA", "implB"}
ImplParams == ConstrArrays \cup {Concrete}

\* ---- state --------------------------------------------------------------
VARIABLES
    tcT,        \* first AST handed to compile/encode
    tcU,        \* second AST handed to compile/encode
    tcCodeT,    \* result of encode(compile(tcT)), once run
    tcCodeU,    \* result of encode(compile(tcU)), once run
    tcDec,      \* result of decode({code: tcCodeT, offset: 0}), once run
    unifier,    \* unifier.ts: the left, right and bindings of the Unifier
    ucall,      \* unifier.ts: the latest call of Unifier.unify
    ucalls,     \* unifier.ts: number of calls made on the Unifier
    tcExpr,     \* typecode.ts: the expression handed to encode
    tcInstrs,   \* typecode.ts: result of encode(tcExpr), once run
    encInput,   \* instruction words handed to encode directly
    encOutput,  \* result of encode(encInput), once run
    datatypes,  \* TypeLang.Context._datatypes : id -> params
    holes,      \* TypeLang.Context._holes : id -> node
    impls,      \* TypeLang.Context._impls : trait code -> type code -> impl
    implLog,    \* history: the (type, trait) pairs handed to defineImpl
    call,       \* the latest call on the TypeLang.Context and its result
    ctxs,       \* the scope tree: the Context objects, root context first
    tctxs,      \* the Context objects of context.ts, root context first
    entered,    \* history: <<context, node>> -> what the first enter returned
    tentered,   \* history: the same for the contexts of context.ts
    frames,     \* Context.check: the calls of check and infer in progress
    cstatus,    \* Context.check: "idle", "running", "returned" or "raised"
    astParams,  \* the params arrays of the type nodes handed to normalize
    normalized, \* history: type node -> the codes normalize returned for it
    nops,       \* number of define, enter and normalize calls made
    ccall       \* the latest call on a scope tree and its result

uniVars == <<unifier, ucall, ucalls>>
encVars == <<encInput, encOutput, tcExpr, tcInstrs, uniVars>>
codeVars == <<tcT, tcU, tcCodeT, tcCodeU, tcDec, encVars>>
langVars == <<datatypes, holes, impls, implLog, call>>
normVars == <<astParams, normalized>>
checkVars == <<frames, cstatus>>
scopeVars == <<ctxs, tctxs, entered, tentered, nops, ccall, normVars, checkVars>>
vars == <<codeVars, langVars, scopeVars>>

NotEncoded == [done |-> FALSE, threw |-> FALSE, code |-> <<>>]
NotDecoded == [done |-> FALSE, ok |-> FALSE, ast |-> <<>>, next |-> undefined]

Encoded(ast) ==
    LET e == encode(compile(ast)) IN
    [done |-> TRUE, threw |-> e.threw, code |-> e.code]

NoCall == [op |-> "none"]

\* new Unifier()
UnifierNew ==
    /\ unifier = UnifierState(EmptyMap, EmptyMap, <<>>)
    /\ ucall = NoCall
    /\ ucalls = 0

CodeIdle ==
    /\ tcT = Concrete /\ tcU = Concrete
    /\ tcCodeT = NotEncoded /\ tcCodeU = NotEncoded /\ tcDec = NotDecoded
    /\ encInput = <<>> /\ encOutput = NotEncoded
    /\ tcExpr = Star /\ tcInstrs = NotEncoded /\ UnifierNew

\* new TypeLang.Context()
LangNew ==
    /\ datatypes = EmptyMap /\ holes = EmptyMap /\ impls = EmptyMap
    /\ implLog = {} /\ call = NoCall

\* Context.empty(repo)
ScopeNew ==
    /\ ctxs = <<Context(NoNode, NoCtx, 0)>>
    /\ tctxs = <<TypeContext(NoCtx, TypeHole(undefined))>>
    /\ entered = EmptyMap
    /\ tentered = EmptyMap
    /\ frames = <<>>
    /\ cstatus = "idle"
    /\ astParams = TypeParams
    /\ normalized = [n \in DOMAIN TypeAST |-> {}]
    /\ nops = 0
    /\ ccall = NoCall

\* ---- specification of the type code -------------------------------------
InitCode ==
    /\ tcT \in CodeUniverse
    /\ tcU \in CodeUniverse
    /\ tcCodeT = NotEncoded
    /\ tcCodeU = NotEncoded
    /\ tcDec = NotDecoded
    /\ encInput = <<>> /\ encOutput = NotEncoded
    /\ tcExpr = Star /\ tcInstrs = NotEncoded /\ UnifierNew
    /\ LangNew
    /\ ScopeNew

EncodeT ==
    /\ ~tcCodeT.done
    /\ tcCodeT' = Encoded(tcT)
    /\ UNCHANGED <<tcT, tcU, tcCodeU, tcDec, encVars, langVars, scopeVars>>

EncodeU ==
    /\ ~tcCodeU.done
    /\ tcCodeU' = Encoded(tcU)
    /\ UNCHANGED <<tcT, tcU, tcCodeT, tcDec, encVars, langVars, scopeVars>>

DecodeT ==
    /\ tcCodeT.done /\ ~tcCodeT.threw
    /\ ~tcDec.done
    /\ tcDec' = [done |-> TRUE] @@ decode(tcCodeT.code, 0)
    /\ UNCHANGED <<tcT, tcU, tcCodeT, tcCodeU, encVars, langVars, scopeVars>>

NextCode == EncodeT \/ EncodeU \/ DecodeT

SpecCode == InitCode /\ [][NextCode]_vars

\* ---- specification of TypeCode.encode on raw instruction words ----------
\* words at and around the two ends of the uint16 range
Words == {0 - Uint16Mod - 1, 0 - 1, 0, 1, Uint16Max, Uint16Mod, Uint16Mod + 1}
WordSeqs == UNION {[1..n -> Words] : n \in 1..MaxWords}

InitEncode ==
    /\ tcT = Concrete /\ tcU = Concrete
    /\ tcCodeT = NotEncoded /\ tcCodeU = NotEncoded /\ tcDec = NotDecoded
    /\ encInput \in WordSeqs
    /\ encOutput = NotEncoded
    /\ tcExpr = Star /\ tcInstrs = NotEncoded /\ UnifierNew
    /\ LangNew
    /\ ScopeNew

EncodeWords ==
    /\ ~encOutput.done
    /\ encOutput' = [done |-> TRUE] @@ encode(encInput)
    /\ UNCHANGED <<tcT, tcU, tcCodeT, tcCodeU, tcDec, encInput, tcExpr, tcInstrs, uniVars,
                   langVars, scopeVars>>

NextEncode == EncodeWords

SpecEncode == InitEncode /\ [][NextEncode]_vars

\* ---- specification of encode of typecode.ts -----------------------------
TcLeaves == {ExprRef(0), ExprRef(1)}
TcLists == UNION {[1..n -> TcLeaves] : n \in 0..MaxArity}
TcKinds == {FunHKT([i \in 1..n |-> Star]) : n \in 0..MaxArity}
              \cup {FunHKT(<<FunHKT(<<Star, Star>>), Star>>)}
TcBodies == {ExprVar(0), ExprVar(1), ExprFun(<<ExprVar(0), ExprVar(0)>>),
             ExprApply(ExprRef(0), <<ExprVar(0)>>)}
TcParams == {ParamHigherKinded(0, k) : k \in TcKinds}
               \cup {ParamConstrained(0, <<>>),
                     ParamConstrained(0, <<Constraint(0, <<>>)>>),
                     ParamConstrained(0, <<Constraint(0, <<>>),
                                           Constraint(1, <<ExprRef(0)>>)>>)}
TcExprs ==
    TcLeaves \cup {ExprVar(0)}
        \cup {ExprFun(l) : l \in TcLists}
        \cup {ExprApply(h, l) : h \in TcLeaves, l \in TcLists}
        \cup {ExprForall(<<q>>, b) : q \in TcParams, b \in TcBodies}

InitTypecode ==
    /\ tcT = Concrete /\ tcU = Concrete
    /\ tcCodeT = NotEncoded /\ tcCodeU = NotEncoded /\ tcDec = NotDecoded
    /\ encInput = <<>> /\ encOutput = NotEncoded
    /\ tcExpr \in TcExprs
    /\ tcInstrs = NotEncoded /\ UnifierNew
    /\ LangNew
    /\ ScopeNew

EncodeExpr ==
    /\ ~tcInstrs.done
    /\ tcInstrs' = LET e == encodeTop(tcExpr) IN
                   [done |-> TRUE, threw |-> e.threw,
                    code |-> IF e.threw THEN <<>> ELSE e.instrs]
    /\ UNCHANGED <<tcT, tcU, tcCodeT, tcCodeU, tcDec, encInput, encOutput, tcExpr, uniVars,
                   langVars, scopeVars>>

NextTypecode == EncodeExpr

SpecTypecode == InitTypecode /\ [][NextTypecode]_vars

\* ---- specification of the Unifier of unifier.ts -------------------------
UniParam == Num(VarId(VARTYPE_param, 0))
UniHole == Num(VarId(VARTYPE_hole, 0))
UniHeads == {VarId(VARTYPE_data, 0), VarId(VARTYPE_data, 1)}
UniAtoms == {UApply(h, <<>>) : h \in UniHeads} \cup {UTuple(<<>>)}
UniExprs ==
    {UniParam, UniHole} \cup UniAtoms
        \cup {UApply(VarId(VARTYPE_data, 0), <<a>>) : a \in UniAtoms \cup {UniParam}}
        \cup {UFun(<<>>, a) : a \in UniAtoms}
        \cup {UFun(<<UniParam>>, UniParam), UTuple(<<UniParam>>)}
        \cup {UForall(UApply(h, <<>>)) : h \in UniHeads}
        \cup {UPartial(0, UniHole), UPartial(0, UTuple(<<>>))}

\* unifier.unify(lhs, rhs)
UnifierUnify(lhs, rhs) ==
    /\ ucall.op = "none"
    /\ ucalls < MaxCalls
    /\ LET u == uniUnify(lhs, rhs, NoPartial, unifier) IN
         /\ unifier' = u.st
         /\ ucall' = [op |-> "unify", lhs |-> lhs, rhs |-> rhs, ret |-> u.ret]
    /\ ucalls' = ucalls + 1
    /\ UNCHANGED <<tcT, tcU, tcCodeT, tcCodeU, tcDec, encInput, encOutput, tcExpr,
                   tcInstrs, langVars, scopeVars>>

UnifierReturn ==
    /\ ucall.op # "none"
    /\ ucall' = NoCall
    /\ UNCHANGED <<unifier, ucalls, tcT, tcU, tcCodeT, tcCodeU, tcDec, encInput,
                   encOutput, tcExpr, tcInstrs, langVars, scopeVars>>

InitUnifier == CodeIdle /\ LangNew /\ ScopeNew

NextUnifier ==
    \/ ucall.op = "none" /\ \E lhs \in UniExprs, rhs \in UniExprs : UnifierUnify(lhs, rhs)
    \/ UnifierReturn

SpecUnifier == InitUnifier /\ [][NextUnifier]_vars

\* ---- specification of the kind checker ---------------------------------
\* no call is pending: the one logical task makes its calls one at a time
Idle == call.op = "none"

defineDatatype(id, params) ==
    /\ Idle
    /\ datatypes' = set(datatypes, id, params)
    /\ UNCHANGED <<call, holes, impls, implLog, codeVars, scopeVars>>

Check(ast, params) ==
    /\ Idle
    /\ call' = [op |-> "check", ast |-> ast, params |-> params,
                ret |-> check(ast, params, datatypes, holes)]
    /\ UNCHANGED <<datatypes, holes, impls, implLog, codeVars, scopeVars>>

\* kind of the expression that was just checked, under the same params
KindOfChecked ==
    /\ call.op = "check"
    /\ call' = [op |-> "kind", ast |-> call.ast, params |-> call.params,
                checked |-> call.ret,
                ret |-> kind(call.ast, call.params, datatypes, holes)]
    /\ UNCHANGED <<datatypes, holes, impls, implLog, codeVars, scopeVars>>

\* the caller is done with the result of the latest call
Return ==
    /\ call.op # "none"
    /\ call' = NoCall
    /\ UNCHANGED <<datatypes, holes, impls, implLog, codeVars, scopeVars>>

InitKind == CodeIdle /\ LangNew /\ ScopeNew

NextKind ==
    \/ Idle /\ \E id \in Ids, params \in DatatypeParams : defineDatatype(id, params)
    \/ Idle /\ \E ast \in KindUniverse, params \in KindParams : Check(ast, params)
    \/ KindOfChecked
    \/ Return

SpecKind == InitKind /\ [][NextKind]_vars

\* ---- specification of the unifier --------------------------------------
LhsRoot == <<0>>
RhsRoot(same) == IF same THEN <<0>> ELSE <<1>>

\* ctx.unify(lhs, rhs, new UnityState(params, {lhs: [], rhs: []})); same: lhs
\* and rhs are one object
Unify(lhs, rhs, same, params) ==
    /\ Idle
    /\ same => lhs = rhs
    /\ LET state == UnityState(params, emptyState.captured)
           u == unify(Node(lhs, LhsRoot), Node(rhs, RhsRoot(same)), state,
                      datatypes, holes, impls)
       IN /\ call' = [op |-> "unify", lhs |-> lhs, rhs |-> rhs, same |-> same,
                      state |-> state, ret |-> u.ret, captured |-> u.captured]
          /\ holes' = u.holes
    /\ UNCHANGED <<datatypes, impls, implLog, codeVars, scopeVars>>

\* ctx.unify(rhs, lhs, s.swap()) for the lhs, rhs and (fresh) state s of the
\* call just made
UnifySwapped ==
    /\ call.op = "unify"
    /\ LET u == unify(Node(call.rhs, RhsRoot(call.same)), Node(call.lhs, LhsRoot),
                      swap(call.state), datatypes, holes, impls)
       IN /\ call' = [op |-> "unify-swapped", lhs |-> call.lhs, rhs |-> call.rhs,
                      same |-> call.same, state |-> call.state, ret |-> call.ret,
                      swapped |-> u.ret]
          /\ holes' = u.holes
    /\ UNCHANGED <<datatypes, impls, implLog, codeVars, scopeVars>>

\* ctx.unify(lhs, rhs, s) with the state object s of the call just made and
\* the same lhs: s holds what that call captured
UnifyAgain(rhs) ==
    /\ call.op = "unify"
    /\ LET state == UnityState(call.state.params, call.captured)
           u == unify(Node(call.lhs, LhsRoot), Node(rhs, RhsRoot(FALSE)),
                      state, datatypes, holes, impls)
       IN /\ call' = [op |-> "unify-again", lhs |-> call.lhs, rhs |-> rhs,
                      same |-> FALSE, state |-> state, ret |-> u.ret,
                      captured |-> u.captured]
          /\ holes' = u.holes
    /\ UNCHANGED <<datatypes, impls, implLog, codeVars, scopeVars>>

InitUnify == CodeIdle /\ LangNew /\ ScopeNew

NextUnify ==
    \/ Idle /\ \E id \in Ids : defineDatatype(id, indexParams(id))
    \/ Idle /\ \E lhs \in UnifyUniverse, rhs \in UnifyUniverse, same \in BOOLEAN,
                  pl \in UnifyParams, pr \in UnifyParams :
                    Unify(lhs, rhs, same, [lhs |-> pl, rhs |-> pr])
    \/ UnifySwapped
    \/ call.op = "unify" /\ \E rhs \in Refs : UnifyAgain(rhs)
    \/ Return

SpecUnify == InitUnify /\ [][NextUnify]_vars

\* ---- specification of the trait-impl index -----------------------------
DefineImpl(type, trait, impl) ==
    /\ Idle
    /\ Cardinality(implLog) < MaxImpls
    /\ impls' = defineImpl(impls, type, trait, impl)
    /\ implLog' = implLog \cup {<<type, trait>>}
    \* defineImpl has no throw statement and its calls raise nothing here
    /\ call' = [op |-> "defineImpl", type |-> type, trait |-> trait,
                impl |-> impl, threw |-> FALSE]
    /\ UNCHANGED <<datatypes, holes, codeVars, scopeVars>>

Instantiate(param, type, params) ==
    /\ Idle
    /\ call' = [op |-> "instantiate", param |-> param, type |-> type,
                params |-> params,
                ret |-> instantiate(param, type, params, datatypes, holes, impls)]
    /\ UNCHANGED <<datatypes, holes, impls, implLog, codeVars, scopeVars>>

InitImpl == CodeIdle /\ LangNew /\ ScopeNew

NextImpl ==
    \/ Idle /\ \E id \in Ids : defineDatatype(id, indexParams(id))
    \/ Idle /\ \E type \in ImplTypes, trait \in ImplTraits, impl \in ImplValues :
                  DefineImpl(type, trait, impl)
    \/ Idle /\ \E param \in ImplParams, type \in ImplTypes :
                  Instantiate(param, type, <<>>)
    \/ Return

SpecImpl == InitImpl /\ [][NextImpl]_vars

\* ---- specification of the scope tree -----------------------------------
ScopeIdle == ccall.op = "none"
CtxIds == 1..Len(ctxs)

DefineEntity(this, node) ==
    /\ ScopeIdle
    /\ nops < MaxOps
    /\ LET d == define(ctxs, this, node) IN
       /\ ctxs' = d.ctxs
       /\ ccall' = [op |-> "define", ctx |-> this, node |-> node, threw |-> d.threw]
    /\ nops' = nops + 1
    /\ UNCHANGED <<tctxs, entered, tentered, normVars, checkVars, codeVars, langVars>>

EnterScope(this, node) ==
    /\ ScopeIdle
    /\ nops < MaxOps
    /\ LET e == enter(ctxs, this, node) IN
       /\ Len(e.ctxs) <= MaxCtx
       /\ ctxs' = e.ctxs
       /\ ccall' = [op |-> "enter", ctx |-> this, node |-> node,
                    threw |-> e.threw, ret |-> e.ret]
       /\ entered' = IF e.threw \/ has(entered, <<this, node>>) THEN entered
                     ELSE set(entered, <<this, node>>, e.ret)
    /\ nops' = nops + 1
    /\ UNCHANGED <<tctxs, tentered, normVars, checkVars, codeVars, langVars>>

ResolveId(this, id) ==
    /\ ScopeIdle
    /\ ccall' = [op |-> "resolveId", ctx |-> this, key |-> id,
                 ret |-> resolveId(ctxs, this, id)]
    /\ UNCHANGED <<ctxs, tctxs, entered, tentered, nops, normVars, checkVars, codeVars, langVars>>

ResolveValueName(this, name) ==
    /\ ScopeIdle
    /\ ccall' = [op |-> "resolveValueName", ctx |-> this, key |-> name,
                 ret |-> resolveValueName(ctxs, this, name)]
    /\ UNCHANGED <<ctxs, tctxs, entered, tentered, nops, normVars, checkVars, codeVars, langVars>>

ResolveTypeName(this, name) ==
    /\ ScopeIdle
    /\ ccall' = [op |-> "resolveTypeName", ctx |-> this, key |-> name,
                 ret |-> resolveTypeName(ctxs, this, name)]
    /\ UNCHANGED <<ctxs, tctxs, entered, tentered, nops, normVars, checkVars, codeVars, langVars>>

FindContext(this, node) ==
    /\ ScopeIdle
    /\ ccall' = [op |-> "findContext", ctx |-> this, node |-> node,
                 ret |-> findContext(ctxs, this, node)]
    /\ UNCHANGED <<ctxs, tctxs, entered, tentered, nops, normVars, checkVars, codeVars, langVars>>

TypeCtxIds == 1..Len(tctxs)

TypeDefine(this, def) ==
    /\ ScopeIdle
    /\ nops < MaxOps
    /\ LET d == typeDefine(tctxs, this, def) IN
       /\ tctxs' = d.tctxs
       /\ ccall' = [op |-> "define@context.ts", ctx |-> this, def |-> def,
                    threw |-> d.threw]
    /\ nops' = nops + 1
    /\ UNCHANGED <<ctxs, entered, tentered, normVars, checkVars, codeVars, langVars>>

TypeEnter(this, domain) ==
    /\ ScopeIdle
    /\ nops < MaxOps
    /\ LET e == typeEnter(tctxs, this, domain) IN
       /\ Len(e.tctxs) <= MaxCtx
       /\ tctxs' = e.tctxs
       /\ ccall' = [op |-> "enter@context.ts", ctx |-> this, domain |-> domain,
                    ret |-> e.ret]
       /\ tentered' = IF has(tentered, <<this, domain>>) THEN tentered
                      ELSE set(tentered, <<this, domain>>, e.ret)
    /\ nops' = nops + 1
    /\ UNCHANGED <<ctxs, entered, normVars, checkVars, codeVars, langVars>>

TypeResolve(this, id) ==
    /\ ScopeIdle
    /\ ccall' = [op |-> "resolve", ctx |-> this, key |-> id,
                 ret |-> resolve(tctxs, this, id)]
    /\ UNCHANGED <<ctxs, tctxs, entered, tentered, nops, normVars, checkVars, codeVars, langVars>>

TypeLookup(this, name) ==
    /\ ScopeIdle
    /\ ccall' = [op |-> "lookup", ctx |-> this, key |-> name,
                 ret |-> lookup(tctxs, this, name)]
    /\ UNCHANGED <<ctxs, tctxs, entered, tentered, nops, normVars, checkVars, codeVars, langVars>>

ScopeReturn ==
    /\ ~ScopeIdle
    /\ ccall' = NoCall
    /\ UNCHANGED <<ctxs, tctxs, entered, tentered, nops, normVars, checkVars, codeVars, langVars>>

InitScope == CodeIdle /\ LangNew /\ ScopeNew

\* ---- specification of Context.normalize ----------------------------------
Normalize(this, n) ==
    /\ ScopeIdle
    /\ nops < MaxOps
    /\ LET r == normalize(ctxs[this].normalizeCache, astParams, n) IN
       /\ ctxs' = [ctxs EXCEPT ![this].normalizeCache = r.cache]
       /\ astParams' = r.params
       /\ normalized' = IF r.threw THEN normalized
                        ELSE [normalized EXCEPT ![n] = @ \cup {r.code}]
       /\ ccall' = [op |-> "normalize", ctx |-> this, node |-> n,
                    threw |-> r.threw, code |-> r.code]
    /\ nops' = nops + 1
    /\ UNCHANGED <<tctxs, entered, tentered, checkVars, codeVars, langVars>>

NextNormalize ==
    \/ ScopeIdle /\ \E this \in CtxIds, n \in DOMAIN TypeAST : Normalize(this, n)
    \/ ScopeIdle /\ \E this \in CtxIds, node \in Scopes : EnterScope(this, node)
    \/ ScopeReturn

\* ---- specification of Context.check --------------------------------------
\* the statements a caller hands to check of the root context, in order
Statements == {1, 2, 11, 13}
Programs == UNION {[1..n -> Statements] : n \in 1..MaxStmts}

InitCheck ==
    /\ CodeIdle /\ LangNew
    /\ ctxs = <<Context(NoNode, NoCtx, 0)>>
    /\ tctxs = <<TypeContext(NoCtx, TypeHole(undefined))>>
    /\ entered = EmptyMap /\ tentered = EmptyMap
    /\ astParams = TypeParams
    /\ normalized = [n \in DOMAIN TypeAST |-> {}]
    /\ nops = 0 /\ ccall = NoCall
    /\ \E program \in Programs : frames = framesOf("check", program, 1)
    /\ cstatus = "running"

CheckUnchanged ==
    UNCHANGED <<tctxs, entered, tentered, nops, ccall, normVars, codeVars, langVars>>

Step(r) ==
    /\ ctxs' = r.ctxs
    /\ frames' = r.frames
    /\ cstatus' = r.status
    /\ CheckUnchanged

CheckCall ==
    /\ cstatus = "running" /\ frames # <<>>
    /\ Head(frames).f = "check"
    /\ Step(checkFrame(ctxs, Head(frames).node, Head(frames).ctx, Tail(frames)))

InferCall ==
    /\ cstatus = "running" /\ frames # <<>>
    /\ Head(frames).f = "infer"
    /\ Step(inferFrame(ctxs, Head(frames).node, Head(frames).ctx, Tail(frames)))

InferEntity ==
    /\ cstatus = "running" /\ frames # <<>>
    /\ Head(frames).f = "inferEntity"
    /\ Step(inferEntityFrame(ctxs, Head(frames).node, Head(frames).ctx, Tail(frames)))

CheckReturn ==
    /\ cstatus = "running" /\ frames = <<>>
    /\ Step(Stepped("returned", <<>>, ctxs))

NextCheck == CheckCall \/ InferCall \/ InferEntity \/ CheckReturn

SpecCheck == InitCheck /\ [][NextCheck]_vars
\* the one task runs until check returns or raises
SpecCheckFair == SpecCheck /\ WF_vars(NextCheck)

NextScope ==
    \/ ScopeIdle /\ \E this \in CtxIds, node \in Definable : DefineEntity(this, node)
    \/ ScopeIdle /\ \E this \in CtxIds, node \in Scopes : EnterScope(this, node)
    \/ ScopeIdle /\ \E this \in CtxIds, id \in EntityIds : ResolveId(this, id)
    \/ ScopeIdle /\ \E this \in CtxIds, name \in Names : ResolveValueName(this, name)
    \/ ScopeIdle /\ \E this \in CtxIds, name \in Names : ResolveTypeName(this, name)
    \/ ScopeIdle /\ \E this \in CtxIds, node \in Entities \cup Scopes : FindContext(this, node)
    \/ ScopeIdle /\ \E this \in TypeCtxIds, def \in Definitions : TypeDefine(this, def)
    \/ ScopeIdle /\ \E this \in TypeCtxIds, domain \in Domains : TypeEnter(this, domain)
    \/ ScopeIdle /\ \E this \in TypeCtxIds, id \in TypeIds : TypeResolve(this, id)
    \/ ScopeIdle /\ \E this \in TypeCtxIds, name \in TypeNames : TypeLookup(this, name)
    \/ ScopeReturn

SpecScope == InitScope /\ [][NextScope]_vars

SpecNormalize == InitScope /\ [][NextNormalize]_vars

\* ---- claims about the type code -----------------------------------------

\* C1: the canonical encoding is injective: two expressions whose codes are
\* equal are structurally equal.
C1_EncodingInjective ==
    (/\ tcCodeT.done /\ tcCodeU.done
     /\ ~tcCodeT.threw /\ ~tcCodeU.threw
     /\ tcCodeT.code = tcCodeU.code)
        => tcT = tcU

\* C2: decoding the code of a well-formed type from offset 0 returns the
\* type and the code length as next offset.
C2_RoundTrip ==
    (tcDec.done /\ ~isKind(tcT))
        => (/\ tcDec.ok
            /\ tcDec.ast = tcT
            /\ tcDec.next = Len(tcCodeT.code))

\* ---- claims about the kind checker --------------------------------------

\* C7: check(Apply(h, a)) returns true exactly when h and a are valid,
\* kind(h) is an arrow k -> k' and kind(a) equals k.
C7_ApplyArrowLaw ==
    (call.op = "check" /\ call.ast[1] = TypeOp_Apply) =>
        LET h == call.ast[2]
            a == call.ast[3]
            hk == kind(h, call.params, datatypes, holes)
            ak == kind(a, call.params, datatypes, holes)
        IN (call.ret = "true") <=>
              (/\ check(h, call.params, datatypes, holes) = "true"
               /\ check(a, call.params, datatypes, holes) = "true"
               /\ hk[1] = TypeOp_Hkt
               /\ ak = hk[2])

\* C8: if check(T, params) returned true then kind(T, params) returns a
\* kind: it neither returns undefined nor raises.
C8_KindSoundness ==
    (call.op = "kind" /\ call.checked = "true") =>
        (call.ret # KindUndefined /\ call.ret # KindThrow)

\* ---- claims about the unifier -------------------------------------------
isType(ast) == ~isKind(ast)
CapturedAsts(array, i) ==
    IF has(array, i) THEN [k \in 1..Len(array[i]) |-> array[i][k].ast] ELSE <<>>

\* C3: unify(T, T) from the empty state returns true for every well-formed
\* type T that passes check.
C3_UnifyReflexive ==
    (/\ call.op = "unify" /\ call.same
     /\ call.state = emptyState
     /\ isType(call.lhs)
     /\ check(call.lhs, <<>>, datatypes, holes) = "true")
        => call.ret = "true"

\* C4 as stated: unify(foo, bar) from the empty state returns true and the
\* instances captured for T (Var 1 of foo) and U (Var 0 of foo) are both X.
C4_FooBarAsStated ==
    (/\ call.op = "unify"
     /\ call.lhs = foo /\ call.rhs = bar
     /\ call.state = emptyState)
        => (/\ call.ret = "true"
            /\ CapturedAsts(call.captured.lhs, 1) = <<Var(0)>>
            /\ CapturedAsts(call.captured.lhs, 0) = <<Var(0)>>)

\* C4 amended: unify(bar, foo), the order of index.ts, from the empty state
\* returns true and the instances captured for T and for U are both X.
C4_BarFooUnifies ==
    (/\ call.op = "unify"
     /\ call.lhs = bar /\ call.rhs = foo
     /\ call.state = emptyState)
        => (/\ call.ret = "true"
            /\ CapturedAsts(call.captured.rhs, 1) = <<Var(0)>>
            /\ CapturedAsts(call.captured.rhs, 0) = <<Var(0)>>)

C4_Witness ==
    /\ call.op = "unify"
    /\ call.lhs = bar /\ call.rhs = foo
    /\ call.state = emptyState
    /\ call.ret = "true"

\* C5: for non-function types T and U and any state s, unify(T, U, s) and
\* unify(U, T, s.swap()) return the same boolean.
isFunctionType(ast) == isFun(unwrapResult(Node(ast, <<>>)).ast)
C5_UnifySymmetric ==
    (/\ call.op = "unify-swapped"
     /\ isType(call.lhs) /\ isType(call.rhs)
     /\ ~isFunctionType(call.lhs) /\ ~isFunctionType(call.rhs)
     /\ call.ret \in {"true", "false"}
     /\ call.swapped \in {"true", "false"})
        => call.ret = call.swapped

\* ---- claims about the trait-impl index ----------------------------------

\* C6: instantiate with a constrained param returns true if and only if, for
\* every constraint C, an earlier defineImpl was given a structurally equal
\* type and a trait structurally equal to C.
C6_ImplDischarge ==
    (call.op = "instantiate" /\ isArray(call.param)) =>
        ((call.ret = "true") <=>
            \A i \in 1..Len(arrayItems(call.param)) :
                <<call.type, arrayItems(call.param)[i]>> \in implLog)

\* ---- claims about the scope tree ----------------------------------------
namespace(node) == IF AST[node].t \in ValueEntityTypes THEN "value" ELSE "type"
definedIn(ctx, node) ==
    has(ctx.entities, AST[node].id) /\ ctx.entities[AST[node].id] = node
\* a different entity of the same name and namespace is defined in ctx
Redeclares(ctx, node) ==
    \E e \in Entities :
        /\ e # node
        /\ definedIn(ctx, e)
        /\ AST[e].name = AST[node].name
        /\ namespace(e) = namespace(node)

\* a different definition of the same name was defined in the context of
\* context.ts
TypeRedeclares(ctx, def) ==
    \E d \in Definitions :
        /\ d # def
        /\ d.name = def.name
        /\ has(ctx.names, d.name) /\ ctx.names[d.name] = d

\* C9: once an entity is defined in a context, defining a different entity
\* of the same name in the same namespace of that context raises the
\* redeclaration error and leaves the context's id map and name maps
\* unchanged, in the scope tree of part_000 and in that of context.ts.
C9_Redeclaration ==
    [][/\ (/\ ccall'.op = "define" /\ ccall.op = "none"
           /\ Redeclares(ctxs[ccall'.ctx], ccall'.node))
          => (/\ ccall'.threw
              /\ ctxs'[ccall'.ctx].entities = ctxs[ccall'.ctx].entities
              /\ ctxs'[ccall'.ctx].valueNames = ctxs[ccall'.ctx].valueNames
              /\ ctxs'[ccall'.ctx].typeNames = ctxs[ccall'.ctx].typeNames)
       /\ (/\ ccall'.op = "define@context.ts" /\ ccall.op = "none"
           /\ TypeRedeclares(tctxs[ccall'.ctx], ccall'.def))
          => (/\ ccall'.threw = "redeclare"
              /\ tctxs'[ccall'.ctx].entities = tctxs[ccall'.ctx].entities
              /\ tctxs'[ccall'.ctx].names = tctxs[ccall'.ctx].names)]_vars

C9_TypeRedeclared ==
    /\ ccall.op = "define@context.ts"
    /\ ccall.threw = "redeclare"
    /\ TypeRedeclares(tctxs[ccall.ctx], ccall.def)
    /\ ccall.ctx # 1

C9_Witness ==
    /\ ccall.op = "define"
    /\ ccall.threw
    /\ Redeclares(ctxs[ccall.ctx], ccall.node)
    /\ ccall.ctx # 1

\* the nearest context on the parent chain of this whose map has the key
RECURSIVE nearestDefinition(_, _, _, _)
nearestDefinition(cs, this, field, key) ==
    IF this = NoCtx THEN NotResolved
    ELSE IF has(cs[this][field], key) THEN Resolved(this, cs[this][field][key])
    ELSE nearestDefinition(cs, cs[this].parent, field, key)

resolveField(op) ==
    CASE op = "resolveId" -> "entities"
      [] op = "resolveValueName" -> "valueNames"
      [] op = "resolveTypeName" -> "typeNames"

\* C10: resolveId, resolveValueName and resolveTypeName return the entity and
\* the context of the nearest definition on the parent chain, and none only
\* if no context on the chain defines it.
C10_ResolveWalksChain ==
    (ccall.op \in {"resolveId", "resolveValueName", "resolveTypeName"}) =>
        ccall.ret = nearestDefinition(ctxs, ccall.ctx, resolveField(ccall.op), ccall.key)

\* C11: every enter of a node on a context after the first returns the
\* context instance the first one returned, in the scope tree of part_000
\* and in that of context.ts.
C11_EnterIdempotent ==
    /\ (ccall.op = "enter" /\ ~ccall.threw)
          => ccall.ret = entered[<<ccall.ctx, ccall.node>>]
    /\ (ccall.op = "enter@context.ts")
          => ccall.ret = tentered[<<ccall.ctx, ccall.domain>>]

\* C11 for the scope tree of part_000 alone
C11_EnterIdempotentPart000 ==
    (ccall.op = "enter" /\ ~ccall.threw)
        => ccall.ret = entered[<<ccall.ctx, ccall.node>>]

\* C12: the first enter of a node that is not the root node of the context
\* returns a new context whose root is the node and whose parent is the
\* context entered from.
C12_FirstEnterCreatesChild ==
    [][(/\ ccall.op = "none" /\ ccall'.op = "enter"
        /\ ~has(entered, <<ccall'.ctx, ccall'.node>>)
        /\ ccall'.node # ctxs[ccall'.ctx].root)
          => (/\ ~ccall'.threw
              /\ ccall'.ret = Len(ctxs) + 1
              /\ Len(ctxs') = Len(ctxs) + 1
              /\ ctxs'[ccall'.ret].root = ccall'.node
              /\ ctxs'[ccall'.ret].parent = ccall'.ctx)]_vars

\* C13: the root context has depth 0 and no parent; a context created for
\* a forall has the depth of its parent plus one, a context created for a
\* block or a function has the depth of its parent.
C13_DepthInvariant ==
    \A c \in DOMAIN ctxs :
        IF ctxs[c].root = NoNode
        THEN ctxs[c].depth = 0 /\ ctxs[c].parent = NoCtx
        ELSE /\ ctxs[c].parent # NoCtx
             /\ ctxs[c].depth =
                    IF AST[ctxs[c].root].t = "forall"
                    THEN ctxs[ctxs[c].parent].depth + 1
                    ELSE ctxs[ctxs[c].parent].depth

\* the context registered in the child index for the nearest
\* ancestor-or-self of the node, NoCtx if none is registered
RECURSIVE nearestRegistered(_, _)
nearestRegistered(ctx, node) ==
    IF node = NoNode THEN NoCtx
    ELSE IF has(ctx.children, node) THEN ctx.children[node]
    ELSE nearestRegistered(ctx, AST[node].parent)

\* C14: findContext returns the context registered for the nearest
\* ancestor-or-self of the node whenever one is registered in the child
\* index of the context.
C14_FindContextNearest ==
    (/\ ccall.op = "findContext"
     /\ nearestRegistered(ctxs[ccall.ctx], ccall.node) # NoCtx)
        => ccall.ret = nearestRegistered(ctxs[ccall.ctx], ccall.node)

\* an entity of the same name and of the other namespace is defined in ctx
SharesName(ctx, node) ==
    \E e \in Entities :
        /\ definedIn(ctx, e)
        /\ AST[e].name = AST[node].name
        /\ namespace(e) # namespace(node)

\* C15: the value and type namespaces are disjoint: defining an entity
\* whose name is taken only in the other namespace of the context raises
\* nothing and registers it, resolveValueName returns only let and param
\* entities, and resolveTypeName returns only type entities.
C15_NamespacesDisjoint ==
    [][/\ (/\ ccall.op = "none" /\ ccall'.op = "define"
           /\ SharesName(ctxs[ccall'.ctx], ccall'.node)
           /\ ~Redeclares(ctxs[ccall'.ctx], ccall'.node))
          => (/\ ~ccall'.threw
              /\ definedIn(ctxs'[ccall'.ctx], ccall'.node)
              /\ SharesName(ctxs'[ccall'.ctx], ccall'.node))
       /\ (ccall'.op = "resolveValueName" /\ ccall'.ret # NotResolved)
          => AST[ccall'.ret.ast].t \in ValueEntityTypes
       /\ (ccall'.op = "resolveTypeName" /\ ccall'.ret # NotResolved)
          => AST[ccall'.ret.ast].t \in TypeEntityTypes]_vars

C15_Witness ==
    /\ ccall.op = "resolveValueName"
    /\ ccall.ret # NotResolved
    /\ SharesName(ctxs[ccall.ctx], ccall.ret.ast)
    /\ has(ctxs[ccall.ctx].typeNames, ccall.key)

\* C16: normalize leaves the params arrays of the AST unchanged, and the
\* code it returns for a node is the same whatever was normalized before and
\* whichever context is asked.
C16_NormalizePure ==
    /\ astParams = TypeParams
    /\ \A n \in DOMAIN TypeAST : Cardinality(normalized[n]) <= 1

\* q lists the items of p in some order
isReordering(p, q) ==
    /\ Len(p) = Len(q)
    /\ \E f \in [DOMAIN p -> DOMAIN p] :
          /\ \A i, j \in DOMAIN p : f[i] = f[j] => i = j
          /\ \A i \in DOMAIN p : q[i] = p[f[i]]

\* C17: two Forall types that differ only in the order of the constraints
\* on the parameter have the same code.
C17_ConstraintOrder ==
    (/\ tcCodeT.done /\ tcCodeU.done
     /\ isForall(tcT) /\ isForall(tcU)
     /\ isArray(tcT[2]) /\ isArray(tcU[2])
     /\ isReordering(arrayItems(tcT[2]), arrayItems(tcU[2]))
     /\ tcT[3] = tcU[3])
        => (/\ ~tcCodeT.threw /\ ~tcCodeU.threw
            /\ tcCodeT.code = tcCodeU.code)

\* C16, second half alone: normalize never returns two different codes for
\* one node
C16_OneCodePerNode ==
    \A n \in DOMAIN TypeAST : Cardinality(normalized[n]) <= 1

\* C18: encode never truncates: if every word is within 0..65535 the output
\* code units equal the words, and otherwise encode raises; no word is
\* wrapped modulo 2^16.
C18_EncodeNeverTruncates ==
    encOutput.done =>
        IF \A i \in DOMAIN encInput : 0 <= encInput[i] /\ encInput[i] <= Uint16Max
        THEN ~encOutput.threw /\ encOutput.code = encInput
        ELSE encOutput.threw

\* C19: unify(hole, T) with an unassigned hole and a type T that is not a
\* hole returns true and records T for the hole.
C19_HoleAssignment ==
    [][(/\ call.op = "none" /\ call'.op = "unify"
        /\ isHole(call'.lhs) /\ ~has(holes, call'.lhs[2])
        /\ ~isHole(call'.rhs) /\ ~isKind(call'.rhs))
          => (/\ call'.ret = "true"
              /\ has(holes', call'.lhs[2]))]_vars

\* C20: unify of two expressions that are not kinds returns a boolean and
\* raises nothing.
C20_UnifyNeverRaises ==
    (/\ call.op = "unify"
     /\ ~isKind(call.lhs) /\ ~isKind(call.rhs))
        => call.ret \in {"true", "false"}

\* the impl index holds an impl for the codes of the trait and the type
implPresent(index, type, trait) ==
    /\ has(index, codeOf(trait))
    /\ has(index[codeOf(trait)], codeOf(type))

\* C21: a defineImpl for a pair whose trait code and type code are already
\* in the impl index raises and leaves the stored impl unchanged.
C21_OverlappingImpl ==
    [][(/\ call.op = "none" /\ call'.op = "defineImpl"
        /\ implPresent(impls, call'.type, call'.trait))
          => (/\ call'.threw
              /\ impls' = impls)]_vars

\* C22: every call of check ends: it returns or raises after finitely many
\* steps, whatever the lets refer to.
C22_CheckTerminates == <>(cstatus \in {"returned", "raised"})

\* suffix is the tail end of code
isSuffix(suffix, code) ==
    /\ Len(suffix) <= Len(code)
    /\ SubSeq(code, Len(code) - Len(suffix) + 1, Len(code)) = suffix

\* C23: the code of a Forall starts with the Forall opcode and ends with
\* the complete code of its body.
C23_ForallBodySuffix ==
    (tcCodeT.done /\ ~tcCodeT.threw /\ isForall(tcT)) =>
        /\ tcCodeT.code # <<>>
        /\ tcCodeT.code[1] = TypeOp_Forall
        /\ isSuffix(codeOf(tcT[3]), Tail(tcCodeT.code))

\* The grammar of a code of typecode.ts: the offset after the expression
\* that starts at offset, 0 if there is none.
\*   quantified := quantifier (Fun hkt hkt) expr | quantifier (Constr expr)+ expr
\*               | quantifier expr
\*   hkt := Kind | Fun hkt hkt     fun := Fun expr expr
\*   apply := Apply expr expr      ref := Ref n     var := Var n
RECURSIVE exprEnd(_, _)
RECURSIVE constrsEnd(_, _)
constrsEnd(code, offset) ==
    IF offset = 0 \/ offset > Len(code) \/ code[offset] # Op_Constr THEN offset
    ELSE constrsEnd(code, exprEnd(code, offset + 1))

exprEnd(code, offset) ==
    IF offset = 0 \/ offset > Len(code) THEN 0
    ELSE CASE code[offset] \in {Op_Forall, Op_Exists} ->
                 IF offset + 1 <= Len(code) /\ code[offset + 1] = Op_Constr
                 THEN exprEnd(code, constrsEnd(code, offset + 1))
                 ELSE IF offset + 1 <= Len(code) /\ code[offset + 1] = Op_Fun
                 THEN exprEnd(code, exprEnd(code, offset + 1))
                 ELSE exprEnd(code, offset + 1)
           [] code[offset] = Op_Kind -> offset + 1
           [] code[offset] \in {Op_Ref, Op_Var} ->
                 IF offset + 1 <= Len(code) THEN offset + 2 ELSE 0
           [] code[offset] \in {Op_Fun, Op_Apply} ->
                 exprEnd(code, exprEnd(code, offset + 1))
           [] OTHER -> 0

\* the right-nested arrow x1 -> (x2 -> ... -> xn) over the codes of the xi
RECURSIVE rightNested(_)
rightNested(codes) ==
    IF Len(codes) = 1 THEN codes[1]
    ELSE <<Op_Fun>> \o codes[1] \o rightNested(Tail(codes))

RECURSIVE concat(_)
concat(codes) == IF codes = <<>> THEN <<>> ELSE Head(codes) \o concat(Tail(codes))

leafCode(e) == encodeTop(e).instrs

\* C24: a function type of n >= 2 components is encoded as the right-nested
\* arrow with n-1 arrow opcodes, an application of n >= 1 arguments as n
\* Apply opcodes, the head and the arguments; fewer components raise; and
\* every code that encode returns, kind arrows included, is one well-formed
\* expression.
C24_CurriedEncoding ==
    tcInstrs.done =>
        /\ tcExpr.t = "fun" =>
              IF Len(tcExpr.params) < 2 THEN tcInstrs.threw
              ELSE /\ ~tcInstrs.threw
                   /\ tcInstrs.code =
                         rightNested([i \in DOMAIN tcExpr.params |->
                                         leafCode(tcExpr.params[i])])
        /\ tcExpr.t = "apply" =>
              IF Len(tcExpr.args) < 1 THEN tcInstrs.threw
              ELSE /\ ~tcInstrs.threw
                   /\ tcInstrs.code =
                         [i \in DOMAIN tcExpr.args |-> Op_Apply]
                             \o leafCode(tcExpr.head)
                             \o concat([i \in DOMAIN tcExpr.args |->
                                           leafCode(tcExpr.args[i])])
        /\ ~tcInstrs.threw => exprEnd(tcInstrs.code, 1) = Len(tcInstrs.code) + 1

\* a Var that unify captures on the side whose parameter stack is params
capturing(ast, params) == isVar(ast) /\ ast[2] < Len(params)
isLeaf(ast) == ast[1] \in {TypeOp_Var, TypeOp_Ref}

\* C25: unify(Fun(x, y), Fun(a, b), s) is unify(a, x, s.swap()) and then,
\* only if that succeeded, unify(y, b, s); a capture made in parameter
\* position is recorded in the capture list of the opposite side (rhs), a
\* capture made in return position in the list of the same side (lhs), and
\* both are in s after the call.
C25_Contravariance ==
    (/\ call.op = "unify" /\ isFun(call.lhs) /\ isFun(call.rhs))
        => LET x == Node(call.lhs, LhsRoot)
               a == Node(call.rhs, RhsRoot(call.same))
               st == call.state
               swapped == UnityState([lhs |-> st.params.rhs, rhs |-> st.params.lhs],
                                     [lhs |-> st.captured.rhs, rhs |-> st.captured.lhs])
               first == unify(sub(a, 2), sub(x, 2), swapped, datatypes, holes, impls)
               second == unify(sub(x, 3), sub(a, 3),
                               UnityState(st.params, [lhs |-> first.captured.rhs,
                                                      rhs |-> first.captured.lhs]),
                               datatypes, first.holes, impls)
           IN /\ call.ret = IF first.ret # "true" THEN first.ret ELSE second.ret
              /\ (/\ call.ret = "true"
                  /\ \A k \in 2..3 : isLeaf(call.lhs[k]) /\ isLeaf(call.rhs[k]))
                    => /\ capturing(call.rhs[2], st.params.rhs) =>
                            CapturedAsts(call.captured.rhs, call.rhs[2][2]) = <<call.lhs[2]>>
                       /\ capturing(call.lhs[3], st.params.lhs) =>
                            CapturedAsts(call.captured.lhs, call.lhs[3][2]) = <<call.rhs[3]>>
                       /\ ~capturing(call.rhs[2], st.params.rhs) =>
                            \A i \in Ids : CapturedAsts(call.captured.rhs, i) = <<>>
                       /\ ~capturing(call.lhs[3], st.params.lhs) =>
                            \A i \in Ids : CapturedAsts(call.captured.lhs, i) = <<>>

C25_Witness ==
    /\ call.op = "unify" /\ isFun(call.lhs) /\ isFun(call.rhs)
    /\ call.ret = "true"
    /\ capturing(call.rhs[2], call.state.params.rhs)
    /\ capturing(call.lhs[3], call.state.params.lhs)
    /\ CapturedAsts(call.captured.rhs, call.rhs[2][2]) = <<call.lhs[2]>>
    /\ CapturedAsts(call.captured.lhs, call.lhs[3][2]) = <<call.rhs[3]>>

\* C26: unify of a hole with itself returns true and changes no assignment;
\* unify of two distinct unassigned holes returns false and changes no
\* assignment; when exactly one of two distinct holes is assigned, unify
\* returns true and the other hole gets the same type.
C26_HoleToHole ==
    [][(/\ call.op = "none" /\ call'.op = "unify"
        /\ isHole(call'.lhs) /\ isHole(call'.rhs))
          => LET l == call'.lhs[2]
                 r == call'.rhs[2]
             IN /\ l = r => (call'.ret = "true" /\ holes' = holes)
                /\ (l # r /\ ~has(holes, l) /\ ~has(holes, r))
                      => (call'.ret = "false" /\ holes' = holes)
                /\ (l # r /\ has(holes, l) /\ ~has(holes, r))
                      => (call'.ret = "true" /\ holes' = set(holes, r, holes[l]))
                /\ (l # r /\ ~has(holes, l) /\ has(holes, r))
                      => (call'.ret = "true" /\ holes' = set(holes, l, holes[r]))]_vars

C26_Witness ==
    /\ call.op = "unify"
    /\ isHole(call.lhs) /\ isHole(call.rhs)
    /\ call.lhs[2] # call.rhs[2]
    /\ ~has(holes, call.lhs[2]) /\ ~has(holes, call.rhs[2])
    /\ call.ret = "false"

\* the two expressions differ in operator, in Apply head, or in the number
\* of arguments, elements or parameters, somewhere below the wrappers: in an
\* argument, an element, a parameter or a function's return type
RECURSIVE mismatch(_, _)
mismatch(lhs, rhs) ==
    IF isNumber(lhs) \/ isNumber(rhs) THEN FALSE
    ELSE IF lhs.t \in {"type:forall", "type:partial"} THEN mismatch(lhs.type, rhs)
    ELSE IF rhs.t \in {"type:forall", "type:partial"} THEN mismatch(lhs, rhs.type)
    ELSE IF lhs.t # rhs.t THEN TRUE
    ELSE CASE lhs.t = "type:apply" ->
                 \/ lhs.head # rhs.head
                 \/ Len(lhs.args) # Len(rhs.args)
                 \/ \E i \in DOMAIN lhs.args : mismatch(lhs.args[i], rhs.args[i])
           [] lhs.t = "type:tuple" ->
                 \/ Len(lhs.elements) # Len(rhs.elements)
                 \/ \E i \in DOMAIN lhs.elements :
                        mismatch(lhs.elements[i], rhs.elements[i])
           [] lhs.t = "type:fun" ->
                 \/ Len(lhs.params) # Len(rhs.params)
                 \/ \E i \in DOMAIN lhs.params : mismatch(lhs.params[i], rhs.params[i])
                 \/ mismatch(lhs.ret, rhs.ret)

\* C27: Unifier.unify returns false whenever the two types differ in
\* operator, Apply head or argument/element/parameter count, also when the
\* difference is in a function's return type or under a Forall or Partial.
C27_UnifierRejectsMismatch ==
    (ucall.op = "unify" /\ mismatch(ucall.lhs, ucall.rhs)) => ucall.ret = "false"

\* every instance list of the array before is still there and is a prefix of
\* the list after
isPrefix(s1, s2) == Len(s1) <= Len(s2) /\ \A k \in DOMAIN s1 : s2[k] = s1[k]
grows(before, after) ==
    \A i \in DOMAIN before : has(after, i) /\ isPrefix(before[i], after[i])

\* C28: unification state only grows: an assigned hole is never reassigned,
\* the captured lists are only appended to, and a unify that fails leaves
\* the captures made before the failure in place.
C28_StateOnlyGrows ==
    [][/\ \A id \in DOMAIN holes : has(holes', id) /\ holes'[id] = holes[id]
       /\ call'.op \in {"unify", "unify-again"} /\ call' # call
            => /\ grows(call'.state.captured.lhs, call'.captured.lhs)
               /\ grows(call'.state.captured.rhs, call'.captured.rhs)]_vars

C28_Witness ==
    /\ call.op = "unify-again"
    /\ call.ret = "false"
    /\ isVar(call.lhs)
    /\ \E i \in DOMAIN call.state.captured.lhs :
          /\ call.state.captured.lhs[i] # <<>>
          /\ isPrefix(call.state.captured.lhs[i], call.captured.lhs[i])

\* the ids of the Vars in an expression without binders
RECURSIVE varIds(_)
varIds(ast) ==
    CASE isVar(ast) -> {ast[2]}
      [] ast[1] \in {TypeOp_Fun, TypeOp_Apply} -> varIds(ast[2]) \cup varIds(ast[3])
      [] OTHER -> {}

\* C29: for a quantified function type that passes check, every Var i of
\* the body denotes the same parameter in the environment built by check as
\* in the parameter list unify builds from unwrap.
C29_DeBruijnAgreement ==
    (/\ call.op = "unify"
     /\ isForall(call.lhs)
     /\ isFun(unwrapResult(Node(call.lhs, LhsRoot)).ast)
     /\ call.state.params.lhs = <<>>
     /\ check(call.lhs, <<>>, datatypes, holes) = "true")
        => LET n == Node(call.lhs, LhsRoot)
               body == unwrapResult(n).ast
           IN \A i \in varIds(body) :
                 checkEnv(n, <<>>)[i + 1] = unifyEnv(n, <<>>)[i + 1]

\* the ids of the entities that entering a domain binds: its parameters or
\* holes, its constructors, its methods
boundIds(domain) ==
    LET bound == IF domain.t = "type:partial" THEN domain.holes
                 ELSE IF domain.t = "type:fun" THEN domain.tparams
                 ELSE domain.params
        ctors == IF domain.t = "type:data" THEN domain.ctors ELSE <<>>
        methods == IF domain.t = "type:trait" THEN domain.methods ELSE <<>>
        all == bound \o ctors \o methods
    IN {all[i].id : i \in DOMAIN all}

\* C30: after C.enter(domain) the entities the domain binds are resolvable
\* by id from the returned child context, and an id that was not resolvable
\* from C or from another child of C before is not resolvable there after.
C30_EnterIsolation ==
    [][(ccall.op = "none" /\ ccall'.op = "enter@context.ts")
          => \A id \in boundIds(ccall'.domain) :
                /\ resolve(tctxs', ccall'.ret, id).found
                /\ \A c \in DOMAIN tctxs :
                      (/\ c = ccall'.ctx \/ tctxs[c].parent = ccall'.ctx
                       /\ ~resolve(tctxs, c, id).found)
                          => ~resolve(tctxs', c, id).found]_vars

====
